---------------------------- MODULE Spec2Model ----------------------------
(***************************************************************************)
(* Model of the ai-whiteboard diagram pipeline.                            *)
(*                                                                         *)
(* generateDiagramWithNim (lib/nimClient, src/unnamed/part_000:181-649)    *)
(* turns the text completion of a language model into a Diagram.           *)
(*                                                                         *)
(* Text is modelled character by character: a JavaScript string is a       *)
(* sequence of one-character strings.  The backtick has no TLA+ string     *)
(* literal, so the one-element token BT stands for it.  A JSON value is a  *)
(* tagged record:                                                          *)
(*    [t |-> "str", s |-> chars]      [t |-> "num", n |-> integer]         *)
(*    [t |-> "bool", b |-> BOOLEAN]   [t |-> "null"]                       *)
(*    [t |-> "arr", a |-> sequence]   [t |-> "obj", o |-> key :> value]    *)
(***************************************************************************)
EXTENDS Integers, Sequences, FiniteSets, TLC

\* --------------------------------------------------------------------------
\* Characters
\* --------------------------------------------------------------------------

BT == "bt"          \* the backtick character
DQ == "\""          \* the double quote
BS == "\\"          \* the backslash
NL == "\n"          \* the line feed

\* The characters JavaScript's \s and String.prototype.trim treat as white
\* space, among those of the modelled alphabet.
IsSpace(c) == c \in {" ", NL, "\t", "\r"}

\* The characters the JSON grammar allows between tokens.
IsJsonWs(c) == c \in {" ", NL, "\t", "\r"}

Digits == {"0", "1", "2", "3", "4", "5", "6", "7", "8", "9"}

DigitVal(c) ==
    CASE c = "0" -> 0 [] c = "1" -> 1 [] c = "2" -> 2 [] c = "3" -> 3
      [] c = "4" -> 4 [] c = "5" -> 5 [] c = "6" -> 6 [] c = "7" -> 7
      [] c = "8" -> 8 [] c = "9" -> 9

DigitChar(d) ==
    CASE d = 0 -> "0" [] d = 1 -> "1" [] d = 2 -> "2" [] d = 3 -> "3"
      [] d = 4 -> "4" [] d = 5 -> "5" [] d = 6 -> "6" [] d = 7 -> "7"
      [] d = 8 -> "8" [] d = 9 -> "9"

\* Whether the characters of pat occur in s starting at index i.
StartsAt(s, i, pat) ==
    /\ i >= 1
    /\ i + Len(pat) - 1 <= Len(s)
    /\ \A k \in 1..Len(pat) : s[i + k - 1] = pat[k]

\* s.slice(a - 1, b) of JavaScript, with 1-based inclusive bounds.
Slice(s, a, b) == IF a > b THEN <<>> ELSE SubSeq(s, a, b)

\* The least j in i..n with P(j), or n + 1 when there is none: where a
\* left-to-right scan that looks for P stops.
Least(i, n, P(_)) ==
    IF \E j \in i..n : P(j)
    THEN CHOOSE j \in i..n : P(j) /\ \A k \in i..(j - 1) : ~P(k)
    ELSE n + 1

\* The greatest j in 1..n with P(j), or 0 when there is none.
Greatest(n, P(_)) ==
    IF \E j \in 1..n : P(j)
    THEN CHOOSE j \in 1..n : P(j) /\ \A k \in (j + 1)..n : ~P(k)
    ELSE 0

\* The least index >= i holding a character that is not white space
\* (Len(s) + 1 when there is none).
SkipSpace(s, i) == Least(i, Len(s), LAMBDA j : ~IsSpace(s[j]))

\* The greatest index <= j holding a character that is not white space
\* (0 when there is none).
SkipSpaceBack(s, j) == Greatest(j, LAMBDA k : ~IsSpace(s[k]))

\* String.prototype.trim
Trim(s) == Slice(s, SkipSpace(s, 1), SkipSpaceBack(s, Len(s)))

\* Array.prototype.join("\n") over a sequence of strings.
RECURSIVE JoinNL(_)
JoinNL(parts) ==
    IF Len(parts) = 0 THEN <<>>
    ELSE IF Len(parts) = 1 THEN parts[1]
    ELSE parts[1] \o <<NL>> \o JoinNL(Tail(parts))

\* String(n) for an integer n.
RECURSIVE NatToChars(_)
NatToChars(n) ==
    IF n < 10 THEN <<DigitChar(n)>>
    ELSE NatToChars(n \div 10) \o <<DigitChar(n % 10)>>

NumToString(n) == IF n < 0 THEN <<"-">> \o NatToChars(0 - n) ELSE NatToChars(n)

\* --------------------------------------------------------------------------
\* getMessageContent
\* --------------------------------------------------------------------------

\* A value that may be null or undefined: None, or Some(x).
None == <<>>
Some(x) == <<x>>

\* A message content is [kind |-> "string", s |-> chars] or
\* [kind |-> "parts", parts |-> sequence of [type |-> t, text |-> None or
\* Some(chars)]].
\* part.type === "text" ? (part.text ?? "") : ""
PartText(part) ==
    IF part.type = "text"
    THEN (IF part.text = None THEN <<>> ELSE part.text[1])
    ELSE <<>>

\* getMessageContent that trims a content that is a string.
getMessageContentTrimmed(content) ==
    IF content.kind = "string"
    THEN Trim(content.s)
    ELSE Trim(JoinNL([i \in 1..Len(content.parts) |-> PartText(content.parts[i])]))

\* Lines 330-341.
getMessageContent(content) ==
    IF content.kind = "string"
    THEN content.s
    ELSE Trim(JoinNL([i \in 1..Len(content.parts) |-> PartText(content.parts[i])]))

\* --------------------------------------------------------------------------
\* extractJsonFromText
\* --------------------------------------------------------------------------

Fence == <<BT, BT, BT>>

\* The index j of a scan of 1..n that stopped at j, or 0 when it ran out.
OrZero(j, n) == IF j > n THEN 0 ELSE j

\* The least index >= i at which pat occurs in s, or 0.
IndexOfFrom(s, pat, i) ==
    OrZero(Least(i, Len(s), LAMBDA k : StartsAt(s, k, pat)), Len(s))

\* (?:json)? under the i flag: the index after an optional "json" tag at i.
AfterJsonTag(s, i) ==
    IF /\ i + 3 <= Len(s)
       /\ s[i] \in {"j", "J"}
       /\ s[i + 1] \in {"s", "S"}
       /\ s[i + 2] \in {"o", "O"}
       /\ s[i + 3] \in {"n", "N"}
    THEN i + 4
    ELSE i

\* rawText.replace(/```(?:json)?\s*([\s\S]*?)```/gi, "$1"), from index i on:
\* the leftmost fence (at open) that has a closing fence (at close) after its
\* tag and white space (from body on) is replaced by what lies between them,
\* and the scan goes on after the closing fence.
RECURSIVE StripFencesFrom(_, _)

StripClose(s, i, open, body, close) ==
    IF close = 0 THEN Slice(s, i, Len(s))
    ELSE Slice(s, i, open - 1) \o Slice(s, body, close - 1)
           \o StripFencesFrom(s, close + 3)

StripBody(s, i, open, body) ==
    StripClose(s, i, open, body, IndexOfFrom(s, Fence, body))

StripOpen(s, i, open) ==
    IF open = 0 THEN Slice(s, i, Len(s))
    ELSE StripBody(s, i, open, SkipSpace(s, AfterJsonTag(s, open + 3)))

StripFencesFrom(s, i) == StripOpen(s, i, IndexOfFrom(s, Fence, i))

StripFences(rawText) == Trim(StripFencesFrom(rawText, 1))

\* The loop of extractJsonFromText: the index at which the brace depth,
\* counted from i with the depth reached so far, first returns to zero, or 0.
\* Only a brace changes the depth, so the scan steps from brace to brace.
RECURSIVE MatchingBrace(_, _, _)

\* BraceAt that stops at the first closing brace, whatever the depth.
BraceAtFirstClose(text, b, d) ==
    IF text[b] = "}" THEN b ELSE MatchingBrace(text, b + 1, d)

\* The brace at b took the depth to d.
BraceAt(text, b, d) == IF d = 0 THEN b ELSE MatchingBrace(text, b + 1, d)

\* The next brace is at b (beyond the text: none).
BraceStep(text, b, depth) ==
    IF b > Len(text) THEN 0
    ELSE BraceAt(text, b, IF text[b] = "{" THEN depth + 1 ELSE depth - 1)

MatchingBrace(text, i, depth) ==
    BraceStep(text, Least(i, Len(text), LAMBDA k : text[k] \in {"{", "}"}), depth)

NoJsonObject == "No JSON object found in model response."
UnbalancedBraces == "Unbalanced braces in model response."

\* BlockTo that takes the rest of the text when no brace matches:
\* text.slice(start)
BlockToEndOfText(text, start, end) ==
    IF end = 0 THEN [ok |-> TRUE, block |-> Slice(text, start, Len(text))]
    ELSE [ok |-> TRUE, block |-> Slice(text, start, end)]

\* The block of text from start to the matching brace at end (0: none).
BlockTo(text, start, end) ==
    IF end = 0 THEN [ok |-> FALSE, err |-> UnbalancedBraces]
    ELSE [ok |-> TRUE, block |-> Slice(text, start, end)]

\* The block of text that starts at the first brace, at start (0: none).
BlockFrom(text, start) ==
    IF start = 0 THEN [ok |-> FALSE, err |-> NoJsonObject]
    ELSE BlockTo(text, start, MatchingBrace(text, start, 0))

\* The block of the fence-stripped text.
BlockOf(text) == BlockFrom(text, IndexOfFrom(text, <<"{">>, 1))

\* [ok |-> TRUE, block |-> chars] or the Error thrown.
extractJsonFromText(rawText) == BlockOf(StripFences(rawText))

\* --------------------------------------------------------------------------
\* repairJson
\* --------------------------------------------------------------------------

\* CommaEnd of the pattern /,\s*}/: a comma before "]" is no match.
CommaEndBrace(s, k) == IF k <= Len(s) /\ s[k] = "}" THEN k ELSE 0

\* Whether the bracket that ends a match is at k: k, or 0.
CommaEnd(s, k) == IF k <= Len(s) /\ s[k] \in {"}", "]"} THEN k ELSE 0

\* The end of a match of /,\s*([}\]])/ starting at index i, or 0.
TrailingCommaAt(s, i) ==
    IF i <= Len(s) /\ s[i] = "," THEN CommaEnd(s, SkipSpace(s, i + 1)) ELSE 0

\* trailingCommaPattern.test(repaired)
HasTrailingComma(s) == \E i \in 1..Len(s) : TrailingCommaAt(s, i) # 0

\* repaired.replace(trailingCommaPattern, "$1"), from index i on: each match,
\* left to right (from c to k), is replaced by its bracket.
RECURSIVE RemoveTrailingCommas(_, _)

RemoveTo(s, i, c, k) ==
    Slice(s, i, c - 1) \o <<s[k]>> \o RemoveTrailingCommas(s, k + 1)

RemoveAt(s, i, c) ==
    IF c > Len(s) THEN Slice(s, i, Len(s))
    ELSE RemoveTo(s, i, c, TrailingCommaAt(s, c))

RemoveTrailingCommas(s, i) ==
    RemoveAt(s, i, Least(i, Len(s), LAMBDA j : TrailingCommaAt(s, j) # 0))

RemovedTrailingCommas == "removed trailing commas"

repairJson(raw) ==
    IF HasTrailingComma(raw)
    THEN [json |-> RemoveTrailingCommas(raw, 1), repair |-> Some(RemovedTrailingCommas)]
    ELSE [json |-> raw, repair |-> None]

\* --------------------------------------------------------------------------
\* JSON.parse
\* --------------------------------------------------------------------------

\* A parse step yields [ok |-> TRUE, val |-> value, pos |-> next index] or
\* ParseFail, the SyntaxError JSON.parse throws.
ParseFail == [ok |-> FALSE]

SkipJsonWs(s, i) == Least(i, Len(s), LAMBDA j : ~IsJsonWs(s[j]))

\* The character an escape sequence \c denotes; NoEscape when \c is no JSON
\* escape.  \b, \f and \uXXXX are outside the modelled alphabet.
NoEscape == "none"

Unescape(c) ==
    CASE c = DQ -> DQ
      [] c = BS -> BS
      [] c = "/" -> "/"
      [] c = "n" -> NL
      [] c = "t" -> "\t"
      [] c = "r" -> "\r"
      [] OTHER -> NoEscape

\* Whether the character at k, in a string literal whose body starts at i,
\* is escaped: an odd number of backslashes runs up to it.
Escaped(s, i, k) ==
    (k - 1 - Greatest(k - 1, LAMBDA m : m < i \/ s[m] # BS)) % 2 = 1

\* The characters of a string literal, the indices of which are kept: an
\* escaped character is what its escape denotes.
Unescaped(s, i, kept) ==
    [j \in 1..Len(kept) |->
       IF Escaped(s, i, kept[j]) THEN Unescape(s[kept[j]]) ELSE s[kept[j]]]

\* The string literal whose body runs from i to the closing quote at close:
\* a backslash that is not escaped introduces an escape and is dropped; an
\* unknown escape or a raw control character is an error.
StringTo(s, i, close) ==
    IF close > Len(s) THEN ParseFail
    ELSE IF \E k \in i..(close - 1) :
              \/ Escaped(s, i, k) /\ Unescape(s[k]) = NoEscape
              \/ ~Escaped(s, i, k) /\ s[k] \in {NL, "\t", "\r"}
         THEN ParseFail
    ELSE [ok |-> TRUE,
          val |-> Unescaped(s, i,
                    SelectSeq([k \in 1..(close - i) |-> i + k - 1],
                              LAMBDA k : ~(s[k] = BS /\ ~Escaped(s, i, k)))),
          pos |-> close + 1]

\* The rest of a string literal whose opening quote precedes index i: the
\* literal ends at the first quote that is not escaped.
ParseStringBody(s, i) ==
    StringTo(s, i, Least(i, Len(s), LAMBDA j : s[j] = DQ /\ ~Escaped(s, i, j)))

\* The digits of an integer from index i on: [val, pos].
RECURSIVE ParseDigits(_, _, _)
ParseDigits(s, i, acc) ==
    IF i <= Len(s) /\ s[i] \in Digits
    THEN ParseDigits(s, i + 1, 10 * acc + DigitVal(s[i]))
    ELSE [val |-> acc, pos |-> i]

NumberAt(d) == [ok |-> TRUE, val |-> [t |-> "num", n |-> d.val], pos |-> d.pos]

\* 0|[1-9][0-9]* at j.
ParseNat(s, j) ==
    IF j > Len(s) \/ s[j] \notin Digits THEN ParseFail
    ELSE IF s[j] = "0" THEN NumberAt([val |-> 0, pos |-> j + 1])
    ELSE NumberAt(ParseDigits(s, j, 0))

Negated(r) == IF r.ok THEN [r EXCEPT !.val.n = 0 - @] ELSE r

\* -?(0|[1-9][0-9]*) ; a fraction or an exponent is outside the modelled
\* alphabet (no "." occurs, and no generated number is followed by e or E).
ParseNumber(s, i) ==
    IF s[i] = "-" THEN Negated(ParseNat(s, i + 1)) ELSE ParseNat(s, i)

LitTrue == <<"t", "r", "u", "e">>
LitFalse == <<"f", "a", "l", "s", "e">>
LitNull == <<"n", "u", "l", "l">>

ParseLiteral(s, i) ==
    IF StartsAt(s, i, LitTrue)
    THEN [ok |-> TRUE, val |-> [t |-> "bool", b |-> TRUE], pos |-> i + 4]
    ELSE IF StartsAt(s, i, LitFalse)
    THEN [ok |-> TRUE, val |-> [t |-> "bool", b |-> FALSE], pos |-> i + 5]
    ELSE IF StartsAt(s, i, LitNull)
    THEN [ok |-> TRUE, val |-> [t |-> "null"], pos |-> i + 4]
    ELSE ParseFail

StringAt(r) ==
    IF r.ok THEN [ok |-> TRUE, val |-> [t |-> "str", s |-> r.val], pos |-> r.pos]
    ELSE ParseFail

RECURSIVE ParseValue(_, _)
RECURSIVE ParseElements(_, _, _)
RECURSIVE ParseMembers(_, _, _)

\* After an element, at j: a comma and more elements, or the closing bracket.
ElementsNext(s, j, acc) ==
    IF j > Len(s) THEN ParseFail
    ELSE IF s[j] = "," THEN ParseElements(s, j + 1, acc)
    ELSE IF s[j] = "]"
         THEN [ok |-> TRUE, val |-> [t |-> "arr", a |-> acc], pos |-> j + 1]
    ELSE ParseFail

ElementsAfter(s, v, acc) ==
    IF v.ok THEN ElementsNext(s, SkipJsonWs(s, v.pos), Append(acc, v.val))
    ELSE ParseFail

\* The elements of an array after "[" or after a comma: a value is due at i.
ParseElements(s, i, acc) == ElementsAfter(s, ParseValue(s, i), acc)

\* After a member, at j: a comma and more members, or the closing brace.
MembersNext(s, j, obj) ==
    IF j > Len(s) THEN ParseFail
    ELSE IF s[j] = "," THEN ParseMembers(s, j + 1, obj)
    ELSE IF s[j] = "}"
         THEN [ok |-> TRUE, val |-> [t |-> "obj", o |-> obj], pos |-> j + 1]
    ELSE ParseFail

\* A repeated key keeps its last value.
MemberAfter(s, key, v, acc) ==
    IF v.ok THEN MembersNext(s, SkipJsonWs(s, v.pos), (key :> v.val) @@ acc)
    ELSE ParseFail

\* After the key, at c: the colon and the value.
MemberColon(s, key, c, acc) ==
    IF c > Len(s) \/ s[c] # ":" THEN ParseFail
    ELSE MemberAfter(s, key, ParseValue(s, c + 1), acc)

MemberKey(s, key, acc) ==
    IF key.ok THEN MemberColon(s, key.val, SkipJsonWs(s, key.pos), acc)
    ELSE ParseFail

\* A member starts at k with the quote of its key.
MemberAt(s, k, acc) ==
    IF k > Len(s) \/ s[k] # DQ THEN ParseFail
    ELSE MemberKey(s, ParseStringBody(s, k + 1), acc)

\* The members of an object after "{" or after a comma: a key is due at i.
ParseMembers(s, i, acc) == MemberAt(s, SkipJsonWs(s, i), acc)

\* The value after "{" at i - 1, whose next token is at j: the empty object,
\* or members.
ParseObject(s, i, j) ==
    IF j <= Len(s) /\ s[j] = "}"
    THEN [ok |-> TRUE, val |-> [t |-> "obj", o |-> <<>>], pos |-> j + 1]
    ELSE ParseMembers(s, i, <<>>)

\* The value after "[" at i - 1, whose next token is at j: the empty array,
\* or elements.
ParseArray(s, i, j) ==
    IF j <= Len(s) /\ s[j] = "]"
    THEN [ok |-> TRUE, val |-> [t |-> "arr", a |-> <<>>], pos |-> j + 1]
    ELSE ParseElements(s, i, <<>>)

\* The value whose first token is at i.
ValueAt(s, i) ==
    IF i > Len(s) THEN ParseFail
    ELSE IF s[i] = "{" THEN ParseObject(s, i + 1, SkipJsonWs(s, i + 1))
    ELSE IF s[i] = "[" THEN ParseArray(s, i + 1, SkipJsonWs(s, i + 1))
    ELSE IF s[i] = DQ THEN StringAt(ParseStringBody(s, i + 1))
    ELSE IF s[i] = "-" \/ s[i] \in Digits THEN ParseNumber(s, i)
    ELSE ParseLiteral(s, i)

ParseValue(s, i0) == ValueAt(s, SkipJsonWs(s, i0))

SyntaxError == "SyntaxError"

\* The text is one value and white space after it.
WholeText(text, r) ==
    IF r.ok /\ SkipJsonWs(text, r.pos) = Len(text) + 1
    THEN [ok |-> TRUE, val |-> r.val]
    ELSE [ok |-> FALSE, err |-> SyntaxError]

\* JSON.parse(text): [ok |-> TRUE, val |-> value] or the SyntaxError thrown.
JSONParse(text) == WholeText(text, ParseValue(text, 1))

\* --------------------------------------------------------------------------
\* tryUnwrapStringifiedJson
\* --------------------------------------------------------------------------

\* try { return JSON.parse(value) } catch { return value }
ParsedOr(r, value) == IF r.ok THEN r.val ELSE value

tryUnwrapStringifiedJson(value) ==
    IF value.t = "str" THEN ParsedOr(JSONParse(value.s), value) ELSE value

\* --------------------------------------------------------------------------
\* Schemas (zod)
\* --------------------------------------------------------------------------

KeyNodes == <<"n", "o", "d", "e", "s">>
KeyEdges == <<"e", "d", "g", "e", "s">>
KeyId == <<"i", "d">>
KeyLabel == <<"l", "a", "b", "e", "l">>
KeyName == <<"n", "a", "m", "e">>
KeyText == <<"t", "e", "x", "t">>
KeyTitle == <<"t", "i", "t", "l", "e">>
KeyFrom == <<"f", "r", "o", "m">>
KeyTo == <<"t", "o">>
KeySource == <<"s", "o", "u", "r", "c", "e">>
KeyTarget == <<"t", "a", "r", "g", "e", "t">>

\* The diagram without nodes or edges.
EmptyDiagram == [nodes |-> <<>>, edges |-> <<>>]

\* The value of a property that is absent.
Undefined == [t |-> "undefined"]

Get(o, k) == IF k \in DOMAIN o THEN o[k] ELSE Undefined

\* z.union([z.string(), z.number()]) accepts the value.
IsStringOrNumber(v) == v.t \in {"str", "num"}

\* .transform(String) on a string or a number.
ToStr(v) == IF v.t = "str" THEN v.s ELSE NumToString(v.n)

\* An optional string-or-number field after .transform(String): None when
\* the key is absent.
OptStr(o, k) == IF k \in DOMAIN o THEN Some(ToStr(o[k])) ELSE None

\* a || b, where a is an optional string and b a string: undefined and ""
\* are falsy.
OrElse(a, b) == IF a = None \/ a = Some(<<>>) THEN b ELSE a[1]

\* The keys of `keys`, in order, under which a value other than a string or
\* a number is present: each is an "Invalid input" issue.
RECURSIVE BadOptionalKeys(_, _)
BadOptionalKeys(o, keys) ==
    IF Len(keys) = 0 THEN <<>>
    ELSE (IF Head(keys) \in DOMAIN o /\ ~IsStringOrNumber(o[Head(keys)])
          THEN << <<Head(keys)>> >> ELSE <<>>) \o BadOptionalKeys(o, Tail(keys))

\* The issues of lenientNodeSchema on v, each the path of the issue within
\* the node: <<key>>, or <<>> for the node itself.
LenientNodeIssues(v) ==
    IF v.t # "obj" THEN << <<>> >>
    ELSE (IF IsStringOrNumber(Get(v.o, KeyId)) THEN <<>> ELSE << <<KeyId>> >>)
           \o BadOptionalKeys(v.o, <<KeyLabel, KeyName, KeyText, KeyTitle>>)

\* NodeLabel that prefers name to label:
\* raw.name || raw.label || raw.text || raw.title || String(raw.id)
NodeLabelNameFirst(o, id) ==
    OrElse(OptStr(o, KeyName),
      OrElse(IF KeyLabel \in DOMAIN o THEN OptStr(o, KeyLabel) ELSE Some(<<>>),
        OrElse(OptStr(o, KeyText),
          OrElse(OptStr(o, KeyTitle), id))))

\* raw.label || raw.name || raw.text || raw.title || String(raw.id)
NodeLabel(o, id) ==
    OrElse(IF KeyLabel \in DOMAIN o THEN OptStr(o, KeyLabel) ELSE Some(<<>>),
      OrElse(OptStr(o, KeyName),
        OrElse(OptStr(o, KeyText),
          OrElse(OptStr(o, KeyTitle), id))))

\* lenientNodeSchema's transform, on a node without issues.
lenientNodeSchema(v) ==
    [id |-> ToStr(v.o[KeyId]), label |-> NodeLabel(v.o, ToStr(v.o[KeyId]))]

LenientEdgeIssues(v) ==
    IF v.t # "obj" THEN << <<>> >>
    ELSE BadOptionalKeys(v.o, <<KeyFrom, KeyTo, KeySource, KeyTarget>>)

\* lenientEdgeSchema that prefers source and target:
\* raw.source || raw.from || "", raw.target || raw.to || ""
lenientEdgeSchemaSourceFirst(v) ==
    [from |-> OrElse(OptStr(v.o, KeySource), OrElse(OptStr(v.o, KeyFrom), <<>>)),
     to   |-> OrElse(OptStr(v.o, KeyTarget), OrElse(OptStr(v.o, KeyTo), <<>>))]

\* lenientEdgeSchema's transform, on an edge without issues.
lenientEdgeSchema(v) ==
    [from |-> OrElse(OptStr(v.o, KeyFrom), OrElse(OptStr(v.o, KeySource), <<>>)),
     to   |-> OrElse(OptStr(v.o, KeyTo), OrElse(OptStr(v.o, KeyTarget), <<>>))]

\* The issues of z.array(item).default([]) under key k of object o, each
\* [path |-> <<k, index, key...>>]: none when the key is absent.
RECURSIVE ItemIssues(_, _, _)
ItemIssues(k, issuesPerItem, i) ==
    IF i > Len(issuesPerItem) THEN <<>>
    ELSE [j \in 1..Len(issuesPerItem[i]) |->
             [path |-> <<k, i - 1>> \o issuesPerItem[i][j]]]
         \o ItemIssues(k, issuesPerItem, i + 1)

LenientArrayIssues(o, k, IssuesOf(_)) ==
    IF k \notin DOMAIN o THEN <<>>
    ELSE IF o[k].t # "arr" THEN <<[path |-> <<k>>]>>
    ELSE ItemIssues(k, [i \in 1..Len(o[k].a) |-> IssuesOf(o[k].a[i])], 1)

LenientIssues(v) ==
    IF v.t # "obj" THEN <<[path |-> <<>>]>>
    ELSE LenientArrayIssues(v.o, KeyNodes, LenientNodeIssues)
           \o LenientArrayIssues(v.o, KeyEdges, LenientEdgeIssues)

\* The items of the array under key k (none when the key is absent).
ItemsOf(o, k) == IF k \in DOMAIN o THEN o[k].a ELSE <<>>

\* KeepNode without its filter: nodes.filter(() => true)
KeepAnyNode(n) == TRUE

\* nodes.filter((n) => n.id && n.label)
KeepNode(n) == n.id # <<>> /\ n.label # <<>>

\* KeepEdge without its filter: edges.filter(() => true)
KeepAnyEdge(e) == TRUE

\* edges.filter((e) => e.from && e.to)
KeepEdge(e) == e.from # <<>> /\ e.to # <<>>

\* The transform of lenientDiagramSchema on an object without issues.
LenientData(o) ==
    [nodes |-> SelectSeq([i \in 1..Len(ItemsOf(o, KeyNodes)) |->
                            lenientNodeSchema(ItemsOf(o, KeyNodes)[i])], KeepNode),
     edges |-> SelectSeq([i \in 1..Len(ItemsOf(o, KeyEdges)) |->
                            lenientEdgeSchema(ItemsOf(o, KeyEdges)[i])], KeepEdge)]

SafeParseResult(issues, data) ==
    IF issues # <<>> THEN [success |-> FALSE, issues |-> issues]
    ELSE [success |-> TRUE, data |-> data]

\* lenientDiagramSchema.safeParse(v)
lenientDiagramSchema(v) ==
    IF v.t # "obj" THEN SafeParseResult(LenientIssues(v), EmptyDiagram)
    ELSE SafeParseResult(LenientIssues(v), LenientData(v.o))

MAX_NODES == 200
MAX_EDGES == 400
MAX_LABEL == 200

\* z.string().min(1) on the value under key k, with an optional maximum
\* length (0: none): the issues.
StrictStringIssues(o, k, max) ==
    IF Get(o, k).t # "str" THEN << <<k>> >>
    ELSE IF Len(o[k].s) < 1 THEN << <<k>> >>
    ELSE IF max > 0 /\ Len(o[k].s) > max THEN << <<k>> >>
    ELSE <<>>

\* diagramNodeSchema
StrictNodeIssues(v) ==
    IF v.t # "obj" THEN << <<>> >>
    ELSE StrictStringIssues(v.o, KeyId, 0) \o StrictStringIssues(v.o, KeyLabel, MAX_LABEL)

\* diagramEdgeSchema
StrictEdgeIssues(v) ==
    IF v.t # "obj" THEN << <<>> >>
    ELSE StrictStringIssues(v.o, KeyFrom, 0) \o StrictStringIssues(v.o, KeyTo, 0)

\* z.array(item).max(max) under key k of object o: the issues.
StrictArrayIssues(o, k, max, IssuesOf(_)) ==
    IF Get(o, k).t # "arr" THEN <<[path |-> <<k>>]>>
    ELSE (IF Len(o[k].a) > max THEN <<[path |-> <<k>>]>> ELSE <<>>)
           \o ItemIssues(k, [i \in 1..Len(o[k].a) |-> IssuesOf(o[k].a[i])], 1)

StrictIssues(v) ==
    IF v.t # "obj" THEN <<[path |-> <<>>]>>
    ELSE StrictArrayIssues(v.o, KeyNodes, MAX_NODES, StrictNodeIssues)
           \o StrictArrayIssues(v.o, KeyEdges, MAX_EDGES, StrictEdgeIssues)

\* The output of diagramSchema on an object without issues: unknown keys are
\* stripped.
StrictData(o) ==
    [nodes |-> [i \in 1..Len(o[KeyNodes].a) |->
                  [id |-> o[KeyNodes].a[i].o[KeyId].s,
                   label |-> o[KeyNodes].a[i].o[KeyLabel].s]],
     edges |-> [i \in 1..Len(o[KeyEdges].a) |->
                  [from |-> o[KeyEdges].a[i].o[KeyFrom].s,
                   to |-> o[KeyEdges].a[i].o[KeyTo].s]]]

\* diagramSchema.safeParse(v)
diagramSchema(v) ==
    IF v.t # "obj" THEN SafeParseResult(StrictIssues(v), EmptyDiagram)
    ELSE SafeParseResult(StrictIssues(v), StrictData(v.o))

\* The JavaScript object that the lenient schema's output is, as a value.
DiagramValue(d) ==
    [t |-> "obj",
     o |-> (KeyNodes :> [t |-> "arr",
                         a |-> [i \in 1..Len(d.nodes) |->
                                  [t |-> "obj",
                                   o |-> (KeyId :> [t |-> "str", s |-> d.nodes[i].id])
                                      @@ (KeyLabel :> [t |-> "str", s |-> d.nodes[i].label])]]])
        @@ (KeyEdges :> [t |-> "arr",
                         a |-> [i \in 1..Len(d.edges) |->
                                  [t |-> "obj",
                                   o |-> (KeyFrom :> [t |-> "str", s |-> d.edges[i].from])
                                      @@ (KeyTo :> [t |-> "str", s |-> d.edges[i].to])]]])]


\* --------------------------------------------------------------------------
\* The completions the provider may return
\* --------------------------------------------------------------------------

\* What the language model wrote, before it became text: a JSON document
\* whose objects keep the order of their members.
\*    [t |-> "str", s |-> chars]   [t |-> "num", n |-> integer]
\*    [t |-> "bool", b |-> BOOLEAN]   [t |-> "null"]
\*    [t |-> "arr", a |-> sequence]   [t |-> "obj", m |-> sequence of <<key, value>>]
JStr(s) == [t |-> "str", s |-> s]
JNum(n) == [t |-> "num", n |-> n]
JNull == [t |-> "null"]
JBool(b) == [t |-> "bool", b |-> b]
JArr(a) == [t |-> "arr", a |-> a]
JObj(m) == [t |-> "obj", m |-> m]

\* The characters of a string literal's body, quotes and backslashes and
\* line feeds escaped.
RECURSIVE Escape(_)
Escape(s) ==
    IF Len(s) = 0 THEN <<>>
    ELSE IF Len(s) = 1
         THEN (CASE s[1] = DQ -> <<BS, DQ>>
                 [] s[1] = BS -> <<BS, BS>>
                 [] s[1] = NL -> <<BS, "n">>
                 [] OTHER -> s)
    ELSE Escape(SubSeq(s, 1, Len(s) \div 2))
           \o Escape(SubSeq(s, Len(s) \div 2 + 1, Len(s)))

\* The text of a document; tc is written after the last element of every
\* array and the last member of every object (<<>>: well-formed JSON;
\* <<",">>: a trailing comma).
RECURSIVE Stringify(_, _)
RECURSIVE StringifyItems(_, _, _)
StringifyItems(items, tc, i) ==
    IF i > Len(items) THEN <<>>
    ELSE Stringify(items[i], tc)
           \o (IF i < Len(items) THEN <<",">> ELSE tc)
           \o StringifyItems(items, tc, i + 1)

RECURSIVE StringifyMembers(_, _, _)
StringifyMembers(members, tc, i) ==
    IF i > Len(members) THEN <<>>
    ELSE <<DQ>> \o Escape(members[i][1]) \o <<DQ, ":">>
           \o Stringify(members[i][2], tc)
           \o (IF i < Len(members) THEN <<",">> ELSE tc)
           \o StringifyMembers(members, tc, i + 1)

Stringify(v, tc) ==
    CASE v.t = "str" -> <<DQ>> \o Escape(v.s) \o <<DQ>>
      [] v.t = "num" -> NumToString(v.n)
      [] v.t = "bool" -> (IF v.b THEN LitTrue ELSE LitFalse)
      [] v.t = "null" -> LitNull
      [] v.t = "arr" -> <<"[">> \o StringifyItems(v.a, tc, 1) \o <<"]">>
      [] v.t = "obj" -> <<"{">> \o StringifyMembers(v.m, tc, 1) \o <<"}">>

\* The document of a diagram, as the system prompt asks for it.
NodeDoc(n) == JObj(<< <<KeyId, JStr(n.id)>>, <<KeyLabel, JStr(n.label)>> >>)
EdgeDoc(e) == JObj(<< <<KeyFrom, JStr(e.from)>>, <<KeyTo, JStr(e.to)>> >>)
DiagramDoc(d) ==
    JObj(<< <<KeyNodes, JArr([i \in 1..Len(d.nodes) |-> NodeDoc(d.nodes[i])])>>,
            <<KeyEdges, JArr([i \in 1..Len(d.edges) |-> EdgeDoc(d.edges[i])])>> >>)

\* The largest chain of nodes a generated diagram holds.
MaxChain == 2

\* n1 -> n2 -> ... -> nk
Chain(k) ==
    [nodes |-> [i \in 1..k |-> [id |-> <<"n">> \o NumToString(i),
                                label |-> <<"N">> \o NumToString(i)]],
     edges |-> [i \in 1..(k - 1) |-> [from |-> <<"n">> \o NumToString(i),
                                      to |-> <<"n">> \o NumToString(i + 1)]]]

OneNode(label) == [nodes |-> <<[id |-> <<"a">>, label |-> label]>>, edges |-> <<>>]

\* Labels that hold the characters the text stages look for.
SpecialLabels ==
    { <<"A", "}">>, <<"{", "A">>, <<"A", ",", "]">>, <<BT, BT, BT, "A">>, <<DQ, "A", BS>> }

\* A label of n characters.
LongLabel(n) == [i \in 1..n |-> "x"]

WellFormedDiagrams ==
    {Chain(k) : k \in 0..MaxChain} \cup {OneNode(l) : l \in SpecialLabels}

Proses1 == { <<>>, <<"H", "i", ":", " ">>, <<"s", "e", "e", " ", "{", "x", "}", " ">> }
Proses2 == { <<>>, <<" ", "o", "k">>, <<" ", "}", " ", "{">> }

NoFence == [open |-> <<>>, close |-> <<>>]
Fences ==
    { [open |-> <<BT, BT, BT, "j", "s", "o", "n", NL>>, close |-> <<NL, BT, BT, BT>>],
      [open |-> <<BT, BT, BT, NL>>, close |-> <<NL, BT, BT, BT>>],
      [open |-> <<BT, BT, BT, "J", "S", "O", "N", " ">>, close |-> <<BT, BT, BT>>] }

\* A completion: prose, an optionally fenced document, prose.
Completion(fam, pre, fence, doc, tc, post) ==
    [fam |-> fam, pre |-> pre, fence |-> fence, doc |-> doc, tc |-> tc, post |-> post,
     text |-> pre \o fence.open \o Stringify(doc, tc) \o fence.close \o post]

\* A completion that is the given text.
RawCompletion(text) ==
    [fam |-> "raw", pre |-> <<>>, fence |-> NoFence, doc |-> JNull, tc |-> <<>>,
     post |-> <<>>, text |-> text]

FencedCompletions ==
    { Completion("fenced", pre, fence, DiagramDoc(d), <<>>, post) :
        pre \in Proses1, fence \in Fences \cup {NoFence},
        d \in WellFormedDiagrams, post \in Proses2 }


\* A member of an object that may be left out.
Opt(k, v) == IF v = None THEN <<>> ELSE << <<k, v[1]>> >>

KeyColor == <<"c", "o", "l", "o", "r">>

\* A node and an edge that every schema accepts; the node carries a key the
\* schemas do not know.
NodeB == JObj(<< <<KeyId, JStr(<<"b">>)>>, <<KeyLabel, JStr(<<"B">>)>>,
                 <<KeyColor, JBool(TRUE)>> >>)
EdgeBB == JObj(<< <<KeyFrom, JStr(<<"b">>)>>, <<KeyTo, JStr(<<"b">>)>> >>)

\* Nodes that name their label under any of the keys, as a string, a number,
\* an empty string or null, or not at all.
IdChoices == {None, Some(JStr(<<>>)), Some(JStr(<<"x">>)), Some(JNum(7))}
LabelChoices == {None, Some(JStr(<<>>)), Some(JStr(<<"L">>)), Some(JNum(0))}
NameChoices == {None, Some(JStr(<<>>)), Some(JStr(<<"N">>))}
TextChoices == {None, Some(JStr(<<"T">>))}
TitleChoices == {None, Some(JStr(<<"I">>)), Some(JNull)}

AliasNodes ==
    { JObj(Opt(KeyId, id) \o Opt(KeyLabel, label) \o Opt(KeyName, name)
             \o Opt(KeyText, text) \o Opt(KeyTitle, title)) :
        id \in IdChoices, label \in LabelChoices, name \in NameChoices,
        text \in TextChoices, title \in TitleChoices }

FromChoices == {None, Some(JStr(<<>>)), Some(JStr(<<"b">>)), Some(JNum(7))}
SourceChoices == {None, Some(JStr(<<"s">>))}
ToChoices == {None, Some(JStr(<<"b">>)), Some(JNull)}
TargetChoices == {None, Some(JStr(<<>>)), Some(JStr(<<"g">>))}

AliasEdges ==
    { JObj(Opt(KeyFrom, from) \o Opt(KeySource, source) \o Opt(KeyTo, to)
             \o Opt(KeyTarget, target)) :
        from \in FromChoices, source \in SourceChoices, to \in ToChoices,
        target \in TargetChoices }

\* {"nodes":[n, NodeB],"edges":[EdgeBB]} and {"nodes":[NodeB],"edges":[e, EdgeBB]}
AliasCompletions ==
    { Completion("node", <<>>, NoFence,
                 JObj(<< <<KeyNodes, JArr(<<n, NodeB>>)>>,
                         <<KeyEdges, JArr(<<EdgeBB>>)>> >>), <<>>, <<>>) :
        n \in AliasNodes }
    \cup
    { Completion("edge", <<>>, NoFence,
                 JObj(<< <<KeyNodes, JArr(<<NodeB>>)>>,
                         <<KeyEdges, JArr(<<e, EdgeBB>>)>> >>), <<>>, <<>>) :
        e \in AliasEdges }

\* What is written where a trailing comma goes.
TrailingCommas == { <<",">>, <<",", " ">>, <<",", NL>>, <<",", ",">> }

\* Documents of the right and of the wrong shape.
CommaDocs ==
    { DiagramDoc(Chain(1)), DiagramDoc(Chain(MaxChain)),
      DiagramDoc(OneNode(<<"A", ",", "]">>)),
      JObj(<< <<KeyNodes, JNum(5)>> >>),
      JObj(<< <<KeyColor, JNum(1)>> >>) }

CommaCompletions ==
    { Completion("comma", <<>>, fence, doc, tc, <<>>) :
        fence \in {NoFence, CHOOSE f \in Fences : f.open[4] = "j"},
        doc \in CommaDocs, tc \in TrailingCommas }

\* Three nodes of which the first and the last have the same id, and an
\* edge to that id.
SameIds ==
    [nodes |-> <<[id |-> <<"b">>, label |-> <<"B">>],
                 [id |-> <<"a">>, label |-> <<"A">>],
                 [id |-> <<"b">>, label |-> <<"B", "2">>]>>,
     edges |-> <<[from |-> <<"a">>, to |-> <<"b">>]>>]

\* Documents whose shape one schema or both refuse, labels at the length
\* limit, and nodes that share an id.
ShapeDocs ==
    { JObj(<<>>),
      JObj(<< <<KeyNodes, JNull>> >>),
      JObj(<< <<KeyNodes, JNum(5)>> >>),
      JObj(<< <<KeyNodes, JArr(<<JNum(5)>>)>> >>),
      JObj(<< <<KeyNodes, JArr(<<NodeB>>)>>, <<KeyEdges, JObj(<<>>)>> >>),
      JObj(<< <<KeyNodes, JArr(<<NodeB>>)>>, <<KeyEdges, JArr(<<JNull, EdgeBB>>)>> >>),
      JObj(<< <<KeyNodes, JArr(<<NodeB>>)>> >>),
      JObj(<< <<KeyNodes, JArr(<<JObj(<< <<KeyId, JStr(<<"a">>)>>,
                                         <<KeyLabel, JStr(<<"A">>)>>,
                                         <<KeyTitle, JBool(TRUE)>> >>)>>)>>,
              <<KeyEdges, JArr(<<EdgeBB>>)>> >>),
      JObj(<< <<KeyNodes, JArr(<<JObj(<< <<KeyId, JStr(<<"a">>)>>,
                                         <<KeyLabel, JStr(<<"A">>)>>,
                                         <<KeyId, JStr(<<"z">>)>> >>)>>)>>,
              <<KeyEdges, JArr(<<>>)>> >>),
      JArr(<<JNum(1)>>),
      JArr(<<DiagramDoc(Chain(1))>>),
      DiagramDoc(SameIds),
      DiagramDoc(OneNode(LongLabel(MAX_LABEL))),
      DiagramDoc(OneNode(LongLabel(MAX_LABEL + 1))),
      JObj(<< <<KeyNodes, JArr(<<JObj(<< <<KeyId, JNum(12)>>,
                                         <<KeyName, JStr(LongLabel(MAX_LABEL + 1))>> >>),
                                 NodeB>>)>>,
              <<KeyEdges, JArr(<<EdgeBB>>)>> >>) }

ShapeCompletions ==
    { Completion("shape", <<>>, NoFence, doc, <<>>, <<>>) : doc \in ShapeDocs }

\* A completion that is a JSON string holding the text of a document.
Stringified(doc) ==
    [Completion("stringified", <<>>, NoFence, doc, <<>>, <<>>)
       EXCEPT !.text = Stringify(JStr(Stringify(doc, <<>>)), <<>>)]

RawTexts ==
    { <<>>, <<" ">>, <<NL, " ", NL>>,
      <<"h", "e", "l", "l", "o">>,
      <<DQ, "h", "e", "l", "l", "o", DQ>>,
      <<"1", "2">>,
      <<"{">>,
      <<"a", " ", "{", " ", "{", "}", " ", "b">>,
      <<"}">>,
      <<"}", "{">>,
      <<"}", " ", "{", "}">>,
      <<"{", "a", "}">>,
      <<"{", "n", "o", "d", "e", "s", ":", "[", "]", "}">>,
      <<BT, BT, BT, "j", "s", "o", "n", NL, BT, BT, BT>>,
      <<BT, BT, BT, "{", BT, BT, BT, "}">>,
      <<"{", DQ, "n", "o", "d", "e", "s", DQ, ":", "[", ",", "]", ",", DQ, "e", "d", "g", "e", "s", DQ, ":", "[", "]", "}">> }

RawCompletions ==
    {RawCompletion(t) : t \in RawTexts}
    \cup {Stringified(DiagramDoc(Chain(1))), Stringified(JStr(<<"h", "i">>))}

Completions ==
    FencedCompletions \cup AliasCompletions \cup CommaCompletions
      \cup ShapeCompletions \cup RawCompletions

\* --------------------------------------------------------------------------
\* The provider
\* --------------------------------------------------------------------------

\* A response of the provider: its status, its body (None when the body is
\* not JSON, else Some(envelope)) and the completion it carries.  An envelope
\* is [choices |-> None or Some(sequence of message contents)].
StringContent(text) == [kind |-> "string", s |-> text]
PartsContent(parts) == [kind |-> "parts", parts |-> parts]
NullContent == [kind |-> "null"]

Envelope(contents) == [choices |-> Some(contents)]

Response(status, body, completion) ==
    [status |-> status, body |-> body, completion |-> completion]

NoCompletion == RawCompletion(<<>>)
NoResponse == Response(0, None, NoCompletion)

\* The completion as the single string of the first choice.
OkString(c) == Response(200, Some(Envelope(<<StringContent(c.text)>>)), c)

\* The completion as typed parts: its prose and its document are text parts,
\* between them a part that is no text and a text part without text.
OkParts(c) ==
    Response(200,
             Some(Envelope(<<PartsContent(<<
                 [type |-> "text", text |-> Some(c.pre)],
                 [type |-> "image_url", text |-> None],
                 [type |-> "text",
                  text |-> Some(c.fence.open \o Stringify(c.doc, c.tc) \o c.fence.close)],
                 [type |-> "text", text |-> None],
                 [type |-> "text", text |-> Some(c.post)] >>)>>)),
             [c EXCEPT !.fam = "parts"])

PartsCompletions ==
    { c \in FencedCompletions : c.doc = DiagramDoc(Chain(1)) }

\* Responses that carry no usable completion.
BrokenResponses ==
    { Response(500, None, NoCompletion),
      Response(200, None, NoCompletion),
      Response(200, Some([choices |-> None]), NoCompletion),
      Response(200, Some(Envelope(<<>>)), NoCompletion),
      Response(200, Some(Envelope(<<NullContent>>)), NoCompletion),
      Response(200, Some(Envelope(<<StringContent(<<"{", "}">>), NullContent>>)),
               NoCompletion) }

\* A content of parts none of which has a text.
BlankParts ==
    Response(200,
             Some(Envelope(<<PartsContent(<<
                 [type |-> "image_url", text |-> None],
                 [type |-> "text", text |-> None] >>)>>)),
             NoCompletion)

Responses ==
    {OkString(c) : c \in Completions} \cup {OkParts(c) : c \in PartsCompletions}
      \cup {BlankParts} \cup BrokenResponses

\* nimResponseSchema.safeParse(rawResponse).success
nimResponseSchema(raw) ==
    /\ raw.choices # None
    /\ Len(raw.choices[1]) >= 1
    /\ \A i \in 1..Len(raw.choices[1]) : raw.choices[1][i].kind \in {"string", "parts"}

\* --------------------------------------------------------------------------
\* diagramBuilder: buildExcalidrawElements
\* --------------------------------------------------------------------------

NODE_WIDTH == 220
NODE_HEIGHT == 120
GRID_GAP_X == 280
GRID_GAP_Y == 220
GRID_START_X == 80
GRID_START_Y == 80

\* A JavaScript number is Num(n), or NaN.
Num(n) == <<n>>
NaN == <<>>

Plus(a, b) == IF a = NaN \/ b = NaN THEN NaN ELSE Num(a[1] + b[1])
Minus(a, b) == IF a = NaN \/ b = NaN THEN NaN ELSE Num(a[1] - b[1])
Half(a) == IF a = NaN THEN NaN ELSE Num(a[1] \div 2)
MathAbs(a) == IF a = NaN THEN NaN ELSE Num(IF a[1] < 0 THEN 0 - a[1] ELSE a[1])

\* Math.ceil(Math.sqrt(n))
CeilSqrt(n) == CHOOSE c \in 0..n : c * c >= n /\ \A b \in 0..(c - 1) : b * b < n

\* Columns with the square root rounded down.
ColumnsFloor(n) ==
    IF n = 0 THEN 1 ELSE CHOOSE c \in 1..n : c * c <= n /\ (c + 1) * (c + 1) > n

\* Line 139: Math.max(1, Math.ceil(Math.sqrt(nodes.length)))
Columns(n) == IF CeilSqrt(n) < 1 THEN 1 ELSE CeilSqrt(n)

\* LayoutAt with the cell dimension added to the gap.
LayoutAtCellPlusGap(index, columns) ==
    [kind |-> "layout",
     x |-> GRID_START_X + (index % columns) * (NODE_WIDTH + GRID_GAP_X),
     y |-> GRID_START_Y + (index \div columns) * (NODE_HEIGHT + GRID_GAP_Y),
     width |-> NODE_WIDTH,
     height |-> NODE_HEIGHT]

\* Lines 143-151: the layout of the node at index (from 0).
LayoutAt(index, columns) ==
    [kind |-> "layout",
     x |-> GRID_START_X + (index % columns) * GRID_GAP_X,
     y |-> GRID_START_Y + (index \div columns) * GRID_GAP_Y,
     width |-> NODE_WIDTH,
     height |-> NODE_HEIGHT]

\* What a property read of the map yields besides a layout: a value that is
\* truthy and no layout (a function or an object of Object.prototype, a
\* number), or undefined.
NotALayout == [kind |-> "other"]
NoLayout == [kind |-> "undefined"]

\* The key that names the prototype of an object, the keys every object
\* inherits from Object.prototype (some of them), and the keys of a layout.
ProtoKey == <<"_", "_", "p", "r", "o", "t", "o", "_", "_">>
ObjectPrototypeKeys ==
    { <<"c", "o", "n", "s", "t", "r", "u", "c", "t", "o", "r">>,
      <<"t", "o", "S", "t", "r", "i", "n", "g">>,
      <<"v", "a", "l", "u", "e", "O", "f">> }
LayoutKeys ==
    { <<"x">>, <<"y">>, <<"w", "i", "d", "t", "h">>, <<"h", "e", "i", "g", "h", "t">> }

\* LastWrite in which the first node with the id keeps its cell.
FirstWrite(nodes, id) == Least(1, Len(nodes), LAMBDA i : nodes[i].id = id)

\* The index of the last node with the id: its write to the map is the one
\* that stays.
LastWrite(nodes, id) == Greatest(Len(nodes), LAMBDA i : nodes[i].id = id)

\* Lines 138-155.  The map is a plain object: own holds its own properties,
\* proto the layout that an assignment to __proto__ made its prototype.
NodeLayoutOf(nodes, columns) ==
    [own |-> [id \in {nodes[i].id : i \in 1..Len(nodes)} \ {ProtoKey} |->
                LayoutAt(LastWrite(nodes, id) - 1, columns)],
     proto |-> IF \E i \in 1..Len(nodes) : nodes[i].id = ProtoKey
               THEN Some(LayoutAt(LastWrite(nodes, ProtoKey) - 1, columns))
               ELSE None]

buildNodeLayout(nodes) == NodeLayoutOf(nodes, Columns(Len(nodes)))

\* layouts[key]
Lookup(layouts, key) ==
    IF key \in DOMAIN layouts.own THEN layouts.own[key]
    ELSE IF key = ProtoKey
         THEN (IF layouts.proto # None THEN layouts.proto[1] ELSE NotALayout)
    ELSE IF layouts.proto # None /\ key \in LayoutKeys THEN NotALayout
    ELSE IF key \in ObjectPrototypeKeys THEN NotALayout
    ELSE NoLayout

\* layout.x and the like: undefined, hence NaN in arithmetic, on what is no
\* layout.
Field(layout, f) == IF layout.kind = "layout" THEN Num(layout[f]) ELSE NaN

\* Lines 21-34: the identity of an element (id, seed, versionNonce, updated).
createBaseElement(identity) == identity

\* createRectangleElement that moves the rectangle by what the call drew at
\* random.
createRectangleElementJittered(node, layout, identity) ==
    [type |-> "rectangle",
     id |-> createBaseElement(identity),
     x |-> Plus(Field(layout, "x"), Num(identity[1])),
     y |-> Field(layout, "y"),
     width |-> Field(layout, "width"),
     height |-> Field(layout, "height"),
     points |-> <<>>,
     customData |-> <<node.id>>]

\* Lines 36-58.
createRectangleElement(node, layout, identity) ==
    [type |-> "rectangle",
     id |-> createBaseElement(identity),
     x |-> Field(layout, "x"),
     y |-> Field(layout, "y"),
     width |-> Field(layout, "width"),
     height |-> Field(layout, "height"),
     points |-> <<>>,
     customData |-> <<node.id>>]

\* Line 63: Math.max(80, Math.min(layout.width - 24, node.label.length * 10))
TextWidth(width, length) ==
    IF width = NaN THEN NaN
    ELSE IF length * 10 < 80 THEN Num(80)
    ELSE IF length * 10 > width[1] - 24 THEN Num(width[1] - 24)
    ELSE Num(length * 10)

\* Lines 60-94; textHeight is 24 * 1.25 = 30.
createLabelElement(node, layout, identity) ==
    [type |-> "text",
     id |-> createBaseElement(identity),
     x |-> Plus(Field(layout, "x"), Num(12)),
     y |-> Minus(Plus(Field(layout, "y"), Half(Field(layout, "height"))), Num(15)),
     width |-> TextWidth(Field(layout, "width"), Len(node.label)),
     height |-> Num(30),
     points |-> <<>>,
     customData |-> <<node.label>>]

\* Lines 97-102 and 104-135.
ArrowFrom(edge, startX, startY, dx, dy, identity) ==
    [type |-> "arrow",
     id |-> createBaseElement(identity),
     x |-> startX,
     y |-> startY,
     width |-> MathAbs(dx),
     height |-> MathAbs(dy),
     points |-> << <<Num(0), Num(0)>>, <<dx, dy>> >>,
     startArrowhead |-> "null",
     endArrowhead |-> "arrow",
     customData |-> <<edge.from, edge.to>>]

Centre(layout, at, size) == Plus(Field(layout, at), Half(Field(layout, size)))

\* ArrowBetween whose second point is the end itself and not the way to it.
ArrowBetweenAbsolute(edge, startX, startY, endX, endY, identity) ==
    ArrowFrom(edge, startX, startY, endX, endY, identity)

ArrowBetween(edge, startX, startY, endX, endY, identity) ==
    ArrowFrom(edge, startX, startY, Minus(endX, startX), Minus(endY, startY), identity)

createArrowElement(edge, from, to, identity) ==
    ArrowBetween(edge, Centre(from, "x", "width"), Centre(from, "y", "height"),
                 Centre(to, "x", "width"), Centre(to, "y", "height"), identity)

\* Lines 161-165: a rectangle and a label for each node.
NodeElements(nodes, layouts, seed) ==
    [k \in 1..(2 * Len(nodes)) |->
       IF k % 2 = 1
       THEN createRectangleElement(nodes[(k + 1) \div 2],
                                   Lookup(layouts, nodes[(k + 1) \div 2].id), <<seed, k>>)
       ELSE createLabelElement(nodes[k \div 2],
                               Lookup(layouts, nodes[k \div 2].id), <<seed, k>>)]

\* Line 171: if (!fromLayout || !toLayout) continue
Resolved(layouts, edge) ==
    /\ Lookup(layouts, edge.from).kind # "undefined"
    /\ Lookup(layouts, edge.to).kind # "undefined"

\* Lines 167-176: an arrow for each edge that is not skipped.
ArrowsOf(edges, layouts, seed, made) ==
    [j \in 1..Len(edges) |->
       createArrowElement(edges[j], Lookup(layouts, edges[j].from),
                          Lookup(layouts, edges[j].to), <<seed, made + j>>)]

EdgeElements(edges, layouts, seed, made) ==
    ArrowsOf(SelectSeq(edges, LAMBDA e : Resolved(layouts, e)), layouts, seed, made)

ElementsOf(diagram, layouts, seed) ==
    NodeElements(diagram.nodes, layouts, seed)
      \o EdgeElements(diagram.edges, layouts, seed, 2 * Len(diagram.nodes))

\* Lines 157-179.  The seed stands for what crypto.randomUUID, Math.random
\* and Date.now give the call.
buildExcalidrawElements(diagram, seed) ==
    ElementsOf(diagram, buildNodeLayout(diagram.nodes), seed)

\* --------------------------------------------------------------------------
\* generateDiagramWithNim
\* --------------------------------------------------------------------------

DEFAULT_MODEL == <<"m", "e", "t", "a", "/", "l", "l", "a", "m", "a", "-", "3", ".", "1", "-", "7", "0", "b", "-", "i", "n", "s", "t", "r", "u", "c", "t">>

\* params.model?.trim() || DEFAULT_MODEL
ResolveModel(model) ==
    IF model = None \/ Trim(model[1]) = <<>> THEN DEFAULT_MODEL ELSE Trim(model[1])

\* The model parameters of a call: absent, blank, or a name.
ModelParams == {None, Some(<<" ">>), Some(<<" ", "m", "1", " ">>)}

MissingKey == "NVIDIA_NIM_API_KEY is missing."
NetworkError == "fetch failed"
AbortError == "This operation was aborted"
StatusError == "NIM request failed"
BodyError == "Unexpected token in JSON"
EnvelopeError == "Unexpected response shape from NVIDIA NIM."

InitialDiagnostics ==
    [rawContent |-> <<>>, extractedJson |-> None, parseError |-> None,
     validationError |-> None, repairApplied |-> None, usedFallback |-> FALSE]

VARIABLES
    pc,           \* where the call stands: "init", "fetching", "text", "json",
                  \* "envelope", "content", "extract", "parse", "validate",
                  \* "returned", "threw"
    apiKey,       \* whether process.env.NVIDIA_NIM_API_KEY is set
    params,       \* params.model: None or Some(chars)
    timer,        \* the 90 s timer: "unset", "armed", "fired", "cleared"
    aborted,      \* controller.signal.aborted
    requests,     \* the completion requests sent to the provider
    response,     \* the provider's response, NoResponse before it arrives
    content,      \* the message content
    jsonBlock,    \* the candidate JSON block
    parsedJson,   \* the parsed value, Undefined before the parse
    parses,       \* the calls of JSON.parse on the candidate block
    diagnostics,  \* the NimDiagnostics record
    diagram,      \* the diagram returned
    modelUsed,    \* the model identifier returned
    error,        \* None, or Some(message of the Error thrown)
    stages,       \* the pipeline stages run so far, in order
    \* POST /api/generate
    rpc,          \* where the handler stands: "idle" (no request), "getUser",
                  \* "isAdmin", "body", "generate", "finally", "done"
    request,      \* the request: its user (None, or Some of id and email)
                  \* and its body (None when it is not JSON)
    userId,       \* None (null), or Some(user.id)
    prompt,       \* the prompt, "" before the body is parsed
    routeModel,   \* modelUsed of the handler
    responseJson, \* None (null), or Some(what is logged as the response)
    reply,        \* None, or Some of the status and body answered
    aiLogs,       \* the inserts into ai_logs attempted, in order
    \* buildExcalidrawElements
    layoutInput,  \* the diagram given to buildExcalidrawElements
    elements,     \* the elements of the last call
    earlier,      \* None, or Some(the elements of the call before)
    builds,       \* the calls of buildExcalidrawElements
    \* SceneManager
    supabase,        \* whether the Supabase client is set (null before the mount)
    scenes,          \* the ids of the rows of the scenes list, in order
    selectedSceneId, \* None (null), or Some(id)
    loading,         \* whether loadScenes is under way
    sceneMessage,    \* message: None (null), or Some(text)
    sceneError,      \* error: None (null), or Some(text)
    sceneTable,      \* the ids of the rows of the table scenes of the user
    issued,          \* the ids the table has ever given to a row
    calls            \* the handler calls that await Supabase, in the order
                     \* in which they were made

\* What belongs to SceneManager; and what belongs to the handler, the
\* builder and SceneManager, and not to generateDiagramWithNim.
sceneVars == <<supabase, scenes, selectedSceneId, loading, sceneMessage,
               sceneError, sceneTable, issued, calls>>

outer == <<rpc, request, userId, prompt, routeModel, responseJson, reply,
           aiLogs, layoutInput, elements, earlier, builds, sceneVars>>

vars == <<pc, apiKey, params, timer, aborted, requests, response, content,
          jsonBlock, parsedJson, parses, diagnostics, diagram, modelUsed,
          error, stages, outer>>

\* The model of the handler before it has parsed a body (line 110).
ROUTE_DEFAULT_MODEL == <<"m", "e", "t", "a", "/", "l", "l", "a", "m", "a", "3", "-", "7", "0", "b", "-", "i", "n", "s", "t", "r", "u", "c", "t">>

NoRequest == [user |-> None, body |-> None]

\* No request is being handled.
NoRoute ==
    /\ rpc = "idle"
    /\ request = NoRequest
    /\ userId = None
    /\ prompt = <<>>
    /\ routeModel = ROUTE_DEFAULT_MODEL
    /\ responseJson = None
    /\ reply = None
    /\ aiLogs = <<>>

\* buildExcalidrawElements has not been called.
NoBuild ==
    /\ elements = <<>>
    /\ earlier = None
    /\ builds = 0

\* SceneManager is not mounted.
NoScenes ==
    /\ supabase = FALSE
    /\ scenes = <<>>
    /\ selectedSceneId = None
    /\ loading = FALSE
    /\ sceneMessage = None
    /\ sceneError = None
    /\ sceneTable = {}
    /\ issued = {}
    /\ calls = <<>>

\* The locals of generateDiagramWithNim before its first statement.
Fresh ==
    /\ timer = "unset"
    /\ aborted = FALSE
    /\ requests = 0
    /\ response = NoResponse
    /\ content = <<>>
    /\ jsonBlock = <<>>
    /\ parsedJson = Undefined
    /\ parses = 0
    /\ diagnostics = InitialDiagnostics
    /\ diagram = EmptyDiagram
    /\ modelUsed = <<>>
    /\ error = None
    /\ stages = <<>>

Init ==
    /\ pc = "init"
    /\ apiKey \in BOOLEAN
    /\ params \in ModelParams
    /\ Fresh
    /\ NoRoute
    /\ layoutInput = EmptyDiagram
    /\ NoBuild
    /\ NoScenes

\* Lines 424-466: the key check, the timer, and the request, up to the first
\* await.
Start ==
    /\ pc = "init"
    /\ IF ~apiKey
       THEN /\ pc' = "threw"
            /\ error' = Some(MissingKey)
            /\ UNCHANGED <<timer, requests, modelUsed>>
       ELSE /\ pc' = "fetching"
            /\ modelUsed' = ResolveModel(params)
            /\ timer' = "armed"
            /\ requests' = requests + 1
            /\ UNCHANGED error
    /\ UNCHANGED <<outer, apiKey, params, aborted, response, content, jsonBlock,
                   parsedJson, parses, diagnostics, diagram, stages>>

\* Throw without the finally block: the timer is left as it is.
ThrowLeavesTimer(message) ==
    /\ pc' = "threw"
    /\ error' = Some(message)
    /\ UNCHANGED timer

\* The finally block: an Error leaves the function, the timer is cleared.
Throw(message) ==
    /\ pc' = "threw"
    /\ error' = Some(message)
    /\ timer' = "cleared"

\* The finally block on a return.
Return(d, diag) ==
    /\ pc' = "returned"
    /\ diagram' = d
    /\ diagnostics' = diag
    /\ timer' = "cleared"

Awaiting == pc \in {"fetching", "text", "json"}

\* The 90 s timer fires while the call awaits the provider.
TimerFires ==
    /\ timer = "armed"
    /\ Awaiting
    /\ timer' = "fired"
    /\ aborted' = TRUE
    /\ UNCHANGED <<outer, pc, apiKey, params, requests, response, content, jsonBlock,
                   parsedJson, parses, diagnostics, diagram, modelUsed, error,
                   stages>>

\* The pending await rejects because the signal is aborted.
AbortRejects ==
    /\ aborted
    /\ Awaiting
    /\ Throw(AbortError)
    /\ UNCHANGED <<outer, apiKey, params, aborted, requests, response, content,
                   jsonBlock, parsedJson, parses, diagnostics, diagram,
                   modelUsed, stages>>

\* FetchRejects that sends the request again.
FetchRejectsRetries ==
    /\ pc = "fetching"
    /\ ~aborted
    /\ requests' = requests + 1
    /\ UNCHANGED <<outer, pc, apiKey, params, timer, aborted, response, content,
                   jsonBlock, parsedJson, parses, diagnostics, diagram,
                   modelUsed, error, stages>>

\* fetch rejects: the request did not reach the provider.
FetchRejects ==
    /\ pc = "fetching"
    /\ ~aborted
    /\ Throw(NetworkError)
    /\ UNCHANGED <<outer, apiKey, params, aborted, requests, response, content,
                   jsonBlock, parsedJson, parses, diagnostics, diagram,
                   modelUsed, stages>>

\* Lines 450-468: fetch resolves with a response.
FetchResolves ==
    /\ pc = "fetching"
    /\ ~aborted
    /\ \E r \in Responses :
         /\ response' = r
         /\ pc' = IF r.status = 200 THEN "json" ELSE "text"
    /\ UNCHANGED <<outer, apiKey, params, timer, aborted, requests, content, jsonBlock,
                   parsedJson, parses, diagnostics, diagram, modelUsed, error,
                   stages>>

\* Lines 468-472: a non-success status.
ReadErrorText ==
    /\ pc = "text"
    /\ ~aborted
    /\ Throw(StatusError)
    /\ UNCHANGED <<outer, apiKey, params, aborted, requests, response, content,
                   jsonBlock, parsedJson, parses, diagnostics, diagram,
                   modelUsed, stages>>

\* Line 477: response.json().
ReadJson ==
    /\ pc = "json"
    /\ ~aborted
    /\ IF response.body = None
       THEN /\ Throw(BodyError)
            /\ UNCHANGED stages
       ELSE /\ pc' = "envelope"
            /\ UNCHANGED <<error, timer>>
            /\ UNCHANGED stages
    /\ UNCHANGED <<outer, apiKey, params, aborted, requests, response, content,
                   jsonBlock, parsedJson, parses, diagnostics, diagram,
                   modelUsed>>

\* Lines 480-488: the envelope.
ValidateEnvelope ==
    /\ pc = "envelope"
    /\ stages' = Append(stages, "envelope")
    /\ IF nimResponseSchema(response.body[1])
       THEN /\ pc' = "content"
            /\ UNCHANGED <<error, timer>>
       ELSE Throw(EnvelopeError)
    /\ UNCHANGED <<outer, apiKey, params, aborted, requests, response, content,
                   jsonBlock, parsedJson, parses, diagnostics, diagram,
                   modelUsed>>

\* What a stage of the pipeline does: it goes on to the next stage (next),
\* returns a diagram, or throws.
GoOn(next, diag) == [to |-> next, diagnostics |-> diag, diagram |-> EmptyDiagram, error |-> None]
Returns(d, diag) == [to |-> "returned", diagnostics |-> diag, diagram |-> d, error |-> None]
Throws(message, diag) ==
    [to |-> "threw", diagnostics |-> diag, diagram |-> EmptyDiagram, error |-> Some(message)]

\* The empty-diagram fallback.
Fallback(diag) == Returns(EmptyDiagram, [diag EXCEPT !.usedFallback = TRUE])

\* The outcome of a stage, as the next state.
Outcome(out) ==
    /\ pc' = out.to
    /\ diagnostics' = out.diagnostics
    /\ diagram' = out.diagram
    /\ error' = out.error
    /\ timer' = IF out.to \in {"returned", "threw"} THEN "cleared" ELSE timer

\* ContentStage that hands an empty content to the extraction.
ContentStageGoesOn(text, diag) == GoOn("extract", [diag EXCEPT !.rawContent = text])

\* Lines 493-511: the message content; an empty one is the empty diagram.
ContentStage(text, diag) ==
    IF Trim(text) = <<>>
    THEN Fallback([diag EXCEPT !.rawContent = text])
    ELSE GoOn("extract", [diag EXCEPT !.rawContent = text])

GotContent(text) ==
    /\ content' = text
    /\ Outcome(ContentStage(text, diagnostics))

ExtractContent ==
    /\ pc = "content"
    /\ stages' = Append(stages, "content")
    /\ GotContent(getMessageContent(response.body[1].choices[1][1]))
    /\ UNCHANGED <<outer, apiKey, params, aborted, requests, response, jsonBlock,
                   parsedJson, parses, modelUsed>>

\* ExtractStage without its catch: the Error of extractJsonFromText leaves
\* the function.
ExtractStageRethrows(extracted, diag) ==
    IF extracted.ok
    THEN GoOn("parse", [diag EXCEPT !.extractedJson = Some(extracted.block)])
    ELSE Throws(extracted.err, diag)

\* Lines 516-532: the candidate block; the Error of extractJsonFromText is
\* caught.
ExtractStage(extracted, diag) ==
    IF extracted.ok
    THEN GoOn("parse", [diag EXCEPT !.extractedJson = Some(extracted.block)])
    ELSE Fallback([diag EXCEPT !.parseError = Some(extracted.err)])

Extracted(out) ==
    /\ jsonBlock' = IF out.diagnostics.extractedJson = None THEN jsonBlock
                    ELSE out.diagnostics.extractedJson[1]
    /\ Outcome(out)

ExtractJson ==
    /\ pc = "extract"
    /\ stages' = Append(stages, "extract")
    /\ Extracted(ExtractStage(extractJsonFromText(content), diagnostics))
    /\ UNCHANGED <<outer, apiKey, params, aborted, requests, response, content,
                   parsedJson, parses, modelUsed>>

ParseFailed == "JSON parse failed: SyntaxError"

\* AfterRetry that falls back without recording the parse error.
AfterRetrySilent(second, diag) ==
    IF second.ok
    THEN [out |-> GoOn("validate", diag),
          value |-> tryUnwrapStringifiedJson(second.val), parses |-> 2]
    ELSE [out |-> Fallback(diag), value |-> Undefined, parses |-> 2]

\* Lines 537-566: JSON.parse, the repair and the one retry, the unwrap.  Each
\* step yields [out |-> outcome, value |-> parsed value, parses |-> calls of
\* JSON.parse].
\* Lines 548-562: the retry on the repaired text.
AfterRetry(second, diag) ==
    IF second.ok
    THEN [out |-> GoOn("validate", diag),
          value |-> tryUnwrapStringifiedJson(second.val), parses |-> 2]
    ELSE [out |-> Fallback([diag EXCEPT !.parseError = Some(ParseFailed)]),
          value |-> Undefined, parses |-> 2]

\* Lines 541-548: the repair.
AfterRepair(repaired, diag) ==
    AfterRetry(JSONParse(repaired.json),
               [diag EXCEPT !.repairApplied = repaired.repair])

\* Lines 538-540: the first parse.
AfterParse(first, block, diag) ==
    IF first.ok
    THEN [out |-> GoOn("validate", diag),
          value |-> tryUnwrapStringifiedJson(first.val), parses |-> 1]
    ELSE AfterRepair(repairJson(block), diag)

ParseStage(block, diag) == AfterParse(JSONParse(block), block, diag)

Parsed(r) ==
    /\ parsedJson' = r.value
    /\ parses' = r.parses
    /\ Outcome(r.out)

ParseJson ==
    /\ pc = "parse"
    /\ stages' = Append(stages, "parse")
    /\ Parsed(ParseStage(jsonBlock, diagnostics))
    /\ UNCHANGED <<outer, apiKey, params, aborted, requests, response, content,
                   jsonBlock, modelUsed>>

\* Lines 572-645: the lenient schema, the strict schema, the fallback.
\* AfterStrict that marks the best-effort result as a fallback.
AfterStrictFlagsFallback(strictResult, lenientData, diag) ==
    IF strictResult.success
    THEN Returns(strictResult.data, diag)
    ELSE Returns(lenientData,
                 [diag EXCEPT !.validationError =
                                 Some(<<"strict", strictResult.issues>>),
                              !.usedFallback = TRUE])

\* AfterStrict that refuses what the strict schema refuses.
AfterStrictRejects(strictResult, lenientData, diag) ==
    IF strictResult.success
    THEN Returns(strictResult.data, diag)
    ELSE Fallback([diag EXCEPT !.validationError =
                                  Some(<<"strict", strictResult.issues>>)])

\* Lines 575-603: the strict schema on the output of the lenient one.
AfterStrict(strictResult, lenientData, diag) ==
    IF strictResult.success
    THEN Returns(strictResult.data, diag)
    ELSE Returns(lenientData,
                 [diag EXCEPT !.validationError =
                                 Some(<<"strict", strictResult.issues>>)])

\* AfterStrictDirect that does not try the strict schema on the parsed value.
AfterStrictDirectFallsBack(strictDirect, lenientIssues, diag) ==
    Fallback([diag EXCEPT !.validationError = Some(<<"lenient", lenientIssues>>)])

\* Lines 614-645: the strict schema on the parsed value itself.
AfterStrictDirect(strictDirect, lenientIssues, diag) ==
    IF strictDirect.success
    THEN Returns(strictDirect.data, diag)
    ELSE Fallback([diag EXCEPT !.validationError =
                                  Some(<<"lenient", lenientIssues>>)])

AfterLenient(lenientResult, value, diag) ==
    IF lenientResult.success
    THEN AfterStrict(diagramSchema(DiagramValue(lenientResult.data)),
                     lenientResult.data, diag)
    ELSE AfterStrictDirect(diagramSchema(value), lenientResult.issues, diag)

ValidateStage(value, diag) ==
    AfterLenient(lenientDiagramSchema(value), value, diag)

Validate ==
    /\ pc = "validate"
    /\ stages' = Append(stages, "validate")
    /\ Outcome(ValidateStage(parsedJson, diagnostics))
    /\ UNCHANGED <<outer, apiKey, params, aborted, requests, response, content,
                   jsonBlock, parsedJson, parses, modelUsed>>

Next ==
    \/ Start
    \/ TimerFires
    \/ AbortRejects
    \/ FetchRejects
    \/ FetchResolves
    \/ ReadErrorText
    \/ ReadJson
    \/ ValidateEnvelope
    \/ ExtractContent
    \/ ExtractJson
    \/ ParseJson
    \/ Validate

Spec == Init /\ [][Next]_vars

\* --------------------------------------------------------------------------
\* POST /api/generate (src/app/api/generate/route.ts, lines 106-224)
\* --------------------------------------------------------------------------

MAX_PROMPT == 4000
MAX_MODEL == 200

\* PromptIssue without the limit of 4000 characters.
PromptIssueNoMax(b) ==
    IF b.prompt = None THEN Some("Required")
    ELSE IF Len(Trim(b.prompt[1])) < 1 THEN Some("Prompt is required")
    ELSE None

\* The first issue of generateRequestSchema, None when there is none.
PromptIssue(b) ==
    IF b.prompt = None THEN Some("Required")
    ELSE IF Len(Trim(b.prompt[1])) < 1 THEN Some("Prompt is required")
    ELSE IF Len(Trim(b.prompt[1])) > MAX_PROMPT THEN Some("Prompt is too long")
    ELSE None

ModelIssue(b) ==
    IF b.model = None THEN None
    ELSE IF Len(Trim(b.model[1])) < 1 THEN Some("String must contain at least 1 character(s)")
    ELSE IF Len(Trim(b.model[1])) > MAX_MODEL THEN Some("String must contain at most 200 character(s)")
    ELSE None

\* Lines 95-102 and 132-133: generateRequestSchema.safeParse(rawBody), rawBody
\* null when the body is not JSON.
generateRequestSchema(rawBody) ==
    IF rawBody = None
    THEN [success |-> FALSE, message |-> "Expected object, received null"]
    ELSE IF PromptIssue(rawBody[1]) # None
    THEN [success |-> FALSE, message |-> PromptIssue(rawBody[1])[1]]
    ELSE IF ModelIssue(rawBody[1]) # None
    THEN [success |-> FALSE, message |-> ModelIssue(rawBody[1])[1]]
    ELSE [success |-> TRUE,
          prompt |-> Trim(rawBody[1].prompt[1]),
          model |-> IF rawBody[1].model = None THEN ROUTE_DEFAULT_MODEL
                    ELSE Trim(rawBody[1].model[1])]

\* The requests: no session or a user, and a body.
TheUser == [id |-> "u1", email |-> "admin@example.org"]
Users == {None, Some(TheUser)}

Body(p, m) == Some([prompt |-> p, model |-> m])

Bodies ==
    { None,
      Body(None, None),
      Body(Some(<<" ">>), None),
      Body(Some([i \in 1..(MAX_PROMPT + 1) |-> "p"]), None),
      Body(Some(<<"p">>), Some(<<" ">>)),
      Body(Some(<<"p">>), None),
      Body(Some(<<" ", "p", " ">>), Some(<<" ", "m", "1", " ">>)) }

\* What crypto.randomUUID, Math.random and Date.now may give a call.
Seeds == {1, 2}

AdminFailed == "Failed to verify admin access"

\* NextResponse.json(body, { status })
Json(status, body) == Some([status |-> status, body |-> body])

ErrorBody(message) == [error |-> message]

\* Catch that answers 200 with an empty diagram and a warning.
CatchAsWarning(message) ==
    /\ responseJson' = Some(ErrorBody(message))
    /\ reply' = Json(200, [elements |-> <<>>, diagram |-> EmptyDiagram, warning |-> TRUE])
    /\ rpc' = "finally"

\* The catch block, lines 188-200.
Catch(message) ==
    /\ responseJson' = Some(ErrorBody(message))
    /\ reply' = Json(502, ErrorBody(message))
    /\ rpc' = "finally"

\* Lines 116-125: the session.
GetUser ==
    /\ rpc = "getUser"
    /\ IF request.user = None
       THEN /\ reply' = Json(401, ErrorBody("Unauthorized"))
            /\ rpc' = "finally"
            /\ UNCHANGED userId
       ELSE /\ userId' = Some(request.user[1].id)
            /\ rpc' = "isAdmin"
            /\ UNCHANGED reply
    /\ UNCHANGED <<pc, apiKey, params, timer, aborted, requests, response,
                   content, jsonBlock, parsedJson, parses, diagnostics,
                   diagram, modelUsed, error, stages>>
    /\ UNCHANGED <<request, prompt, routeModel, responseJson, aiLogs,
                   layoutInput, elements, earlier, builds>>
    /\ UNCHANGED sceneVars

\* Lines 127-130: isAdminEmail answers yes or no, or throws.
IsAdmin ==
    /\ rpc = "isAdmin"
    /\ \E allowed \in {"yes", "no", "throws"} :
         IF allowed = "throws"
         THEN Catch(AdminFailed)
         ELSE IF allowed = "no"
         THEN /\ reply' = Json(403, ErrorBody("Forbidden"))
              /\ rpc' = "finally"
              /\ UNCHANGED responseJson
         ELSE /\ rpc' = "body"
              /\ UNCHANGED <<reply, responseJson>>
    /\ UNCHANGED <<pc, apiKey, params, timer, aborted, requests, response,
                   content, jsonBlock, parsedJson, parses, diagnostics,
                   diagram, modelUsed, error, stages>>
    /\ UNCHANGED <<request, userId, prompt, routeModel, aiLogs, layoutInput,
                   elements, earlier, builds>>
    /\ UNCHANGED sceneVars

\* Lines 132-154: the body; a valid one starts generateDiagramWithNim.
Parsed400(parsedBody) ==
    /\ reply' = Json(400, ErrorBody(parsedBody.message))
    /\ rpc' = "finally"
    /\ UNCHANGED <<prompt, routeModel, pc, params>>

Generate(parsedBody) ==
    /\ prompt' = parsedBody.prompt
    /\ routeModel' = parsedBody.model
    /\ params' = Some(parsedBody.model)
    /\ pc' = "init"
    /\ rpc' = "generate"
    /\ UNCHANGED reply

ParsedBody(parsedBody) ==
    IF parsedBody.success THEN Generate(parsedBody) ELSE Parsed400(parsedBody)

ParseBody ==
    /\ rpc = "body"
    /\ ParsedBody(generateRequestSchema(request.body))
    /\ UNCHANGED <<apiKey, timer, aborted, requests, response, content,
                   jsonBlock, parsedJson, parses, diagnostics, diagram,
                   modelUsed, error, stages>>
    /\ UNCHANGED <<request, userId, responseJson, aiLogs, layoutInput,
                   elements, earlier, builds>>
    /\ UNCHANGED sceneVars

\* Lines 181-185: the warning of an empty fallback.
Warned == diagnostics.usedFallback /\ Len(diagram.nodes) = 0

\* Built that refuses a fallback: 502 and no elements when usedFallback is set.
BuiltRejects(made) ==
    /\ elements' = made
    /\ responseJson' = Some([diagram |-> diagram, elements |-> made])
    /\ reply' = IF diagnostics.usedFallback
                THEN Json(502, ErrorBody("Model returned invalid diagram schema."))
                ELSE Json(200, [elements |-> made, diagram |-> diagram, warning |-> Warned])

\* Lines 156-187: generateDiagramWithNim returned.  The diagnostics that a
\* development build adds to the body are left out.
Built(made) ==
    /\ elements' = made
    /\ responseJson' = Some([diagram |-> diagram, elements |-> made])
    /\ reply' = Json(200, [elements |-> made, diagram |-> diagram, warning |-> Warned])

Generated ==
    /\ rpc = "generate"
    /\ pc = "returned"
    /\ routeModel' = modelUsed
    /\ \E seed \in Seeds : Built(buildExcalidrawElements(diagram, seed))
    /\ layoutInput' = diagram
    /\ builds' = builds + 1
    /\ rpc' = "finally"
    /\ UNCHANGED <<pc, apiKey, params, timer, aborted, requests, response,
                   content, jsonBlock, parsedJson, parses, diagnostics,
                   diagram, modelUsed, error, stages>>
    /\ UNCHANGED <<request, userId, prompt, aiLogs, earlier>>
    /\ UNCHANGED sceneVars

\* Lines 188-200: generateDiagramWithNim threw.
Caught ==
    /\ rpc = "generate"
    /\ pc = "threw"
    /\ Catch(error[1])
    /\ UNCHANGED <<pc, apiKey, params, timer, aborted, requests, response,
                   content, jsonBlock, parsedJson, parses, diagnostics,
                   diagram, modelUsed, error, stages>>
    /\ UNCHANGED <<request, userId, prompt, routeModel, aiLogs, layoutInput,
                   elements, earlier, builds>>
    /\ UNCHANGED sceneVars

\* InsertLog that logs the runs answered with 200 alone.
InsertLogOnSuccess ==
    /\ rpc = "finally"
    /\ IF userId # None /\ reply[1].status = 200
       THEN \E outcome \in {"inserted", "error"} :
              aiLogs' = Append(aiLogs, [user_id |-> userId[1],
                                        prompt |-> prompt,
                                        model_used |-> routeModel,
                                        response_json |-> responseJson,
                                        duration_ms |-> "Date.now() - startedAt",
                                        outcome |-> outcome])
       ELSE UNCHANGED aiLogs
    /\ rpc' = "done"
    /\ UNCHANGED <<pc, apiKey, params, timer, aborted, requests, response,
                   content, jsonBlock, parsedJson, parses, diagnostics,
                   diagram, modelUsed, error, stages>>
    /\ UNCHANGED <<request, userId, prompt, routeModel, responseJson, reply,
                   layoutInput, elements, earlier, builds>>
    /\ UNCHANGED sceneVars

\* The row of lines 207-213; the insert resolves with or without an error.
LogRow(outcome) ==
    [user_id |-> userId[1],
     prompt |-> prompt,
     model_used |-> routeModel,
     response_json |-> responseJson,
     duration_ms |-> "Date.now() - startedAt",
     outcome |-> outcome]

\* Lines 201-223: the finally block.
InsertLog ==
    /\ rpc = "finally"
    /\ IF userId # None
       THEN \E outcome \in {"inserted", "error"} :
              aiLogs' = Append(aiLogs, LogRow(outcome))
       ELSE UNCHANGED aiLogs
    /\ rpc' = "done"
    /\ UNCHANGED <<pc, apiKey, params, timer, aborted, requests, response,
                   content, jsonBlock, parsedJson, parses, diagnostics,
                   diagram, modelUsed, error, stages>>
    /\ UNCHANGED <<request, userId, prompt, routeModel, responseJson, reply,
                   layoutInput, elements, earlier, builds>>
    /\ UNCHANGED sceneVars

\* A request arrives; generateDiagramWithNim is not running.
RouteInit ==
    /\ pc = "idle"
    /\ apiKey \in BOOLEAN
    /\ params = None
    /\ Fresh
    /\ rpc = "getUser"
    /\ request \in [user : Users, body : Bodies]
    /\ userId = None
    /\ prompt = <<>>
    /\ routeModel = ROUTE_DEFAULT_MODEL
    /\ responseJson = None
    /\ reply = None
    /\ aiLogs = <<>>
    /\ layoutInput = EmptyDiagram
    /\ NoBuild
    /\ NoScenes

RouteNext ==
    \/ GetUser
    \/ IsAdmin
    \/ ParseBody
    \/ Next
    \/ Generated
    \/ Caught
    \/ InsertLog

RouteSpec == RouteInit /\ [][RouteNext]_vars

\* --------------------------------------------------------------------------
\* buildExcalidrawElements, called twice on a diagram
\* --------------------------------------------------------------------------

MaxNodes == 5
MaxBuilds == 2

Ids == << <<"a">>, <<"b">>, <<"c">>, <<"d">>, <<"e">>, <<"f">>, <<"g">> >>

\* n nodes with ids of their own.
Distinct(n) == [i \in 1..n |-> [id |-> Ids[i], label |-> <<"L">> \o Ids[i]]]

\* The ids a node is given in place of its own: that of another node, the
\* key of the prototype, a key of Object.prototype, a key of a layout.
OtherIds ==
    { Ids[1], Ids[2], ProtoKey,
      <<"c", "o", "n", "s", "t", "r", "u", "c", "t", "o", "r">>, <<"x">> }

NodeLists ==
    {Distinct(n) : n \in 0..MaxNodes}
      \cup UNION {{[Distinct(n) EXCEPT ![i].id = id] : i \in 1..n, id \in OtherIds} :
                   n \in 1..MaxNodes}

Edge(from, to) == [from |-> from, to |-> to]

\* Edges between nodes, edges with an end that may be no node, and an edge
\* from a node to itself.
EdgeChoices ==
    { Edge(Ids[1], Ids[2]), Edge(Ids[2], Ids[1]), Edge(Ids[5], Ids[1]),
      Edge(Ids[1], <<"z">>),
      Edge(<<"c", "o", "n", "s", "t", "r", "u", "c", "t", "o", "r">>, Ids[1]),
      Edge(Ids[1], ProtoKey),
      Edge(<<"v", "a", "l", "u", "e", "O", "f">>, ProtoKey),
      Edge(<<"x">>, Ids[1]), Edge(Ids[2], Ids[2]) }

EdgeLists ==
    {<<>>} \cup {<<e>> : e \in EdgeChoices}
      \cup {<<e, f>> : e \in EdgeChoices, f \in EdgeChoices}

LayoutDiagrams == [nodes : NodeLists, edges : EdgeLists]

BuilderInit ==
    /\ pc = "idle"
    /\ apiKey = FALSE
    /\ params = None
    /\ Fresh
    /\ NoRoute
    /\ layoutInput \in LayoutDiagrams
    /\ NoBuild
    /\ NoScenes

\* A call of buildExcalidrawElements on the diagram.
Build ==
    /\ pc = "idle"
    /\ rpc = "idle"
    /\ builds < MaxBuilds
    /\ \E seed \in Seeds : elements' = buildExcalidrawElements(layoutInput, seed)
    /\ earlier' = IF builds = 0 THEN None ELSE Some(elements)
    /\ builds' = builds + 1
    /\ UNCHANGED <<pc, apiKey, params, timer, aborted, requests, response,
                   content, jsonBlock, parsedJson, parses, diagnostics,
                   diagram, modelUsed, error, stages>>
    /\ UNCHANGED <<rpc, request, userId, prompt, routeModel, responseJson,
                   reply, aiLogs, layoutInput>>
    /\ UNCHANGED sceneVars

BuilderNext == Build

BuilderSpec == BuilderInit /\ [][BuilderNext]_vars

\* --------------------------------------------------------------------------
\* SceneManager (src/components/SceneManager.tsx)
\* --------------------------------------------------------------------------

\* The rows the table scenes gives an id to, and the handler calls that
\* await Supabase at a time.
MaxScenes == 2
MaxCalls == 2

SceneNames == <<"s1", "s2", "s3", "s4">>
SceneIds == {SceneNames[i] : i \in 1..MaxScenes}

\* What SceneManager leaves alone.
nimVars == <<pc, apiKey, params, timer, aborted, requests, response, content,
             jsonBlock, parsedJson, parses, diagnostics, diagram, modelUsed,
             error, stages>>
routeVars == <<rpc, request, userId, prompt, routeModel, responseJson, reply,
               aiLogs>>
buildVars == <<layoutInput, elements, earlier, builds>>

\* A handler call at its await: the handler, the id it works on, the
\* selectedSceneId of the render whose handler was called, and, once the
\* table has served the request, whether it succeeded and the ids of the
\* rows it returned.
Call(fn, id, selected) ==
    [fn |-> fn, id |-> id, selected |-> selected,
     answered |-> FALSE, ok |-> FALSE, data |-> <<>>]

Served(call, ok, data) ==
    [call EXCEPT !.answered = TRUE, !.ok = ok, !.data = IF ok THEN data ELSE <<>>]

\* The sequence without its i-th item.
Without(s, i) == [k \in 1..(Len(s) - 1) |-> IF k < i THEN s[k] ELSE s[k + 1]]

\* The rows of a set in the orders a query may return them.
Orders(S) ==
    {s \in [1..Cardinality(S) -> S] : \A i, j \in 1..Cardinality(S) : s[i] = s[j] => i = j}

\* Whether the list shows the row: the list is rendered when loading is
\* false (lines 286-300).
Listed(id) == ~loading /\ \E k \in 1..Len(scenes) : scenes[k] = id

\* previous.filter((item) => item.id !== id)
FilterOut(previous, id) == SelectSeq(previous, LAMBDA item : item # id)

Unavailable == "Supabase client unavailable."
NotReady == "Canvas not ready yet."
RequestFailed == "request failed"

\* Lines 68-78 and 45-56: the effects of the mount set the client and call
\* loadScenes, which awaits the select.
Mount ==
    /\ ~supabase
    /\ supabase' = TRUE
    /\ loading' = TRUE
    /\ sceneError' = None
    /\ calls' = Append(calls, Call("loadScenes", None, None))
    /\ UNCHANGED <<scenes, selectedSceneId, sceneMessage, sceneTable, issued>>
    /\ UNCHANGED <<nimVars, routeVars, buildVars>>

\* The start of the three asynchronous handlers, lines 93-105, 131-148 and
\* 177-183: they reset error and message and give up without the client or
\* without a scene of the canvas; else they await the request.
Await(call, scene) ==
    /\ sceneMessage' = None
    /\ IF ~supabase
       THEN sceneError' = Some(Unavailable) /\ UNCHANGED calls
       ELSE IF scene = "null"
       THEN sceneError' = Some(NotReady) /\ UNCHANGED calls
       ELSE sceneError' = None /\ calls' = Append(calls, call)
    /\ UNCHANGED <<supabase, scenes, selectedSceneId, loading, sceneTable, issued>>
    /\ UNCHANGED <<nimVars, routeVars, buildVars>>

\* Lines 92-116, up to the await of the insert.
HandleSaveNew ==
    /\ Len(calls) < MaxCalls
    /\ \E scene \in {"null", "scene"} :
         Await(Call("saveNew", None, selectedSceneId), scene)

\* Lines 130-161, up to the await of the update; the button is rendered, and
\* the registered save calls it, when a scene is selected (lines 83-84, 274).
HandleUpdateSelected ==
    /\ Len(calls) < MaxCalls
    /\ selectedSceneId # None
    /\ \E scene \in {"null", "scene"} :
         Await(Call("updateSelected", selectedSceneId, selectedSceneId), scene)

\* Lines 176-189, up to the await of the delete, for a row of the list.
HandleDelete ==
    /\ Len(calls) < MaxCalls
    /\ \E id \in SceneIds :
         /\ Listed(id)
         /\ Await(Call("delete", Some(id), selectedSceneId), "scene")

\* Lines 206-212, for a row of the list.
HandleLoad ==
    /\ \E id \in SceneIds :
         /\ Listed(id)
         /\ selectedSceneId' = Some(id)
    /\ sceneMessage' = Some("Loaded")
    /\ sceneError' = None
    /\ UNCHANGED <<supabase, scenes, loading, sceneTable, issued, calls>>
    /\ UNCHANGED <<nimVars, routeVars, buildVars>>

\* The id the table gives its next row.
NextId == SceneNames[Least(1, MaxScenes, LAMBDA k : SceneNames[k] \notin issued)]

\* The table serves the select of loadScenes (lines 53-56).
ServeSelect(i) ==
    /\ calls[i].fn = "loadScenes"
    /\ \E ok \in BOOLEAN, rows \in Orders(sceneTable) :
         calls' = [calls EXCEPT ![i] = Served(@, ok, rows)]
    /\ UNCHANGED <<sceneTable, issued>>

\* The table serves the insert of handleSaveNew (lines 108-116).
ServeInsert(i) ==
    /\ calls[i].fn = "saveNew"
    /\ \E ok \in BOOLEAN :
         IF ok /\ issued # SceneIds
         THEN /\ calls' = [calls EXCEPT ![i] = Served(@, TRUE, <<NextId>>)]
              /\ sceneTable' = sceneTable \cup {NextId}
              /\ issued' = issued \cup {NextId}
         ELSE /\ calls' = [calls EXCEPT ![i] = Served(@, FALSE, <<>>)]
              /\ UNCHANGED <<sceneTable, issued>>

\* The table serves the update of handleUpdateSelected (lines 151-161):
\* .single() is an error when no row has the id.
ServeUpdate(i) ==
    /\ calls[i].fn = "updateSelected"
    /\ \E ok \in BOOLEAN :
         calls' = [calls EXCEPT
                     ![i] = Served(@, ok /\ calls[i].id[1] \in sceneTable, <<calls[i].id[1]>>)]
    /\ UNCHANGED <<sceneTable, issued>>

\* The table serves the delete of handleDelete (lines 185-189): no error
\* when no row has the id.
ServeDelete(i) ==
    /\ calls[i].fn = "delete"
    /\ \E ok \in BOOLEAN :
         /\ calls' = [calls EXCEPT ![i] = Served(@, ok, <<>>)]
         /\ sceneTable' = IF ok THEN sceneTable \ {calls[i].id[1]} ELSE sceneTable
    /\ UNCHANGED issued

\* The table serves one of the requests awaited, in any order.
Serve ==
    /\ \E i \in 1..Len(calls) :
         /\ ~calls[i].answered
         /\ ServeSelect(i) \/ ServeInsert(i) \/ ServeUpdate(i) \/ ServeDelete(i)
    /\ UNCHANGED <<supabase, scenes, selectedSceneId, loading, sceneMessage, sceneError>>
    /\ UNCHANGED <<nimVars, routeVars, buildVars>>

\* if (error) { setError(error.message); return; }
Failed ==
    /\ sceneError' = Some(RequestFailed)
    /\ UNCHANGED <<scenes, selectedSceneId, sceneMessage>>

\* Lines 58-65: loadScenes after its await.
LoadScenesDone(call) ==
    /\ loading' = FALSE
    /\ IF call.ok
       THEN scenes' = call.data /\ UNCHANGED <<selectedSceneId, sceneMessage, sceneError>>
       ELSE Failed

\* Lines 118-127: handleSaveNew after its await.
SaveNewDone(call) ==
    /\ UNCHANGED loading
    /\ IF call.ok
       THEN /\ scenes' = <<call.data[1]>> \o scenes
            /\ selectedSceneId' = Some(call.data[1])
            /\ sceneMessage' = Some("Saved to Supabase.")
            /\ UNCHANGED sceneError
       ELSE Failed

\* Lines 163-173: handleUpdateSelected after its await.
UpdateSelectedDone(call) ==
    /\ UNCHANGED loading
    /\ IF call.ok
       THEN /\ scenes' = <<call.data[1]>> \o FilterOut(scenes, call.data[1])
            /\ sceneMessage' = Some("Scene updated.")
            /\ UNCHANGED <<selectedSceneId, sceneError>>
       ELSE Failed

\* DeleteDone that compares the id with the selectedSceneId of the moment.
DeleteDoneCurrent(call) ==
    /\ UNCHANGED loading
    /\ IF call.ok
       THEN /\ scenes' = FilterOut(scenes, call.id[1])
            /\ selectedSceneId' = IF selectedSceneId = call.id THEN None
                                  ELSE selectedSceneId
            /\ sceneMessage' = Some("Scene deleted.")
            /\ UNCHANGED sceneError
       ELSE Failed

\* Lines 191-203: handleDelete after its await; selectedSceneId is that of
\* the render whose handler was called.
DeleteDone(call) ==
    /\ UNCHANGED loading
    /\ IF call.ok
       THEN /\ scenes' = FilterOut(scenes, call.id[1])
            /\ selectedSceneId' = IF call.selected = call.id THEN None
                                  ELSE selectedSceneId
            /\ sceneMessage' = Some("Scene deleted.")
            /\ UNCHANGED sceneError
       ELSE Failed

Done(call) ==
    \/ call.fn = "loadScenes" /\ LoadScenesDone(call)
    \/ call.fn = "saveNew" /\ SaveNewDone(call)
    \/ call.fn = "updateSelected" /\ UpdateSelectedDone(call)
    \/ call.fn = "delete" /\ DeleteDone(call)

\* The answer to one of the requests arrives and its handler goes on.
Resume ==
    /\ \E i \in 1..Len(calls) :
         /\ calls[i].answered
         /\ calls' = Without(calls, i)
         /\ Done(calls[i])
    /\ UNCHANGED <<supabase, sceneTable, issued>>
    /\ UNCHANGED <<nimVars, routeVars, buildVars>>

\* The component is constructed; the table holds the rows that earlier
\* sessions of the user saved.
SceneInit ==
    /\ pc = "idle"
    /\ apiKey = FALSE
    /\ params = None
    /\ Fresh
    /\ NoRoute
    /\ layoutInput = EmptyDiagram
    /\ NoBuild
    /\ supabase = FALSE
    /\ scenes = <<>>
    /\ selectedSceneId = None
    /\ loading = FALSE
    /\ sceneMessage = None
    /\ sceneError = None
    /\ sceneTable \in SUBSET SceneIds
    /\ issued = sceneTable
    /\ calls = <<>>

SceneNext ==
    \/ Mount
    \/ HandleSaveNew
    \/ HandleUpdateSelected
    \/ HandleDelete
    \/ HandleLoad
    \/ Serve
    \/ Resume

SceneSpec == SceneInit /\ [][SceneNext]_vars

\* --------------------------------------------------------------------------
\* Properties
\* --------------------------------------------------------------------------

Returned == pc = "returned"

\* Whether the stage has run.
InStages(stage) == \E i \in 1..Len(stages) : stages[i] = stage

\* The completion the response carries.
TheCompletion == response.completion

NoBrace(s) == \A i \in 1..Len(s) : s[i] # "{"

\* The brace depth of s counted from index f up to index k.
DepthAt(s, f, k) ==
    Cardinality({i \in f..k : s[i] = "{"}) - Cardinality({i \in f..k : s[i] = "}"})

\* s holds a brace, and the depth counted from its first "{" never returns
\* to zero.
NeverBalanced(s) ==
    /\ ~NoBrace(s)
    /\ \A k \in {i \in 1..Len(s) : s[i] = "}"} :
         \A f \in {i \in 1..k : s[i] = "{" /\ \A j \in 1..(i - 1) : s[j] # "{"} :
           DepthAt(s, f, k) # 0

\* Every field of every node and edge is non-empty.
NonEmptyFields(d) ==
    /\ \A i \in 1..Len(d.nodes) : d.nodes[i].id # <<>> /\ d.nodes[i].label # <<>>
    /\ \A i \in 1..Len(d.edges) : d.edges[i].from # <<>> /\ d.edges[i].to # <<>>

\* The invariants of the strict schema.
StrictInvariants(d) ==
    /\ Len(d.nodes) <= MAX_NODES
    /\ Len(d.edges) <= MAX_EDGES
    /\ NonEmptyFields(d)
    /\ \A i \in 1..Len(d.nodes) : Len(d.nodes[i].label) <= MAX_LABEL

\* C1 (as amended): an Error leaves generateDiagramWithNim only before the
\* content of the completion is looked at, and only for a missing API key, a
\* request that failed or was aborted, a status that is no success, a body
\* that is no JSON, or an envelope of the wrong shape; once the envelope is
\* validated, no content makes it raise.
C1_NoThrowAfterEnvelope ==
    pc = "threw" =>
      /\ error \in {Some(MissingKey), Some(NetworkError), Some(AbortError),
                    Some(StatusError), Some(BodyError), Some(EnvelopeError)}
      /\ ~InStages("content")
      /\ (stages # <<>> => stages = <<"envelope">> /\ error = Some(EnvelopeError))

\* C1 as stated: the only Errors are a missing API key, a status that is no
\* success, a malformed envelope and an aborted request.
C1_OnlyFourErrors ==
    pc = "threw" =>
      /\ error \in {Some(MissingKey), Some(AbortError), Some(StatusError),
                    Some(EnvelopeError)}
      /\ ~InStages("content")

\* A completion that is no JSON came back as a result, not as an Error.
C1_Witness ==
    /\ Returned
    /\ diagnostics.usedFallback
    /\ diagnostics.parseError = Some(ParseFailed)
    /\ error = None

\* C2 (as amended): when the content was empty or a recovery stage failed
\* for good, usedFallback is true and the diagram returned is empty, and
\* usedFallback is true for no other reason; an empty diagram alone does not
\* tell a fallback.
C2_FallbackIsEmpty ==
    Returned =>
      /\ (diagnostics.usedFallback =>
            /\ diagram = EmptyDiagram
            /\ \/ Trim(diagnostics.rawContent) = <<>>
               \/ diagnostics.parseError # None
               \/ diagnostics.validationError # None)
      /\ (Trim(diagnostics.rawContent) = <<>> \/ diagnostics.parseError # None
            => diagnostics.usedFallback)

\* C2 as stated: the diagram returned is empty exactly when usedFallback is
\* true.
C2_EmptyIffFallback ==
    Returned => (diagram = EmptyDiagram <=> diagnostics.usedFallback)

\* Both schemas refused the parsed value: the last recovery stage failed.
C2_Witness ==
    /\ Returned
    /\ diagnostics.usedFallback
    /\ diagnostics.validationError # None
    /\ diagram = EmptyDiagram

C5_ExtractionFallback ==
    (InStages("extract") /\ Trim(content) # <<>>
       /\ (NoBrace(content) \/ NeverBalanced(content)))
    => /\ Returned
       /\ error = None
       /\ diagram = EmptyDiagram
       /\ diagnostics.usedFallback
       /\ diagnostics.extractedJson = None
       /\ diagnostics.parseError =
            (IF NoBrace(content) THEN Some(NoJsonObject) ELSE Some(UnbalancedBraces))
       /\ diagnostics.repairApplied = None
       /\ diagnostics.validationError = None
       /\ stages = <<"envelope", "content", "extract">>
       /\ parses = 0

\* A content with an open brace that nothing closes fell back.
C5_Witness ==
    /\ Returned
    /\ Trim(content) # <<>>
    /\ NeverBalanced(content)
    /\ diagnostics.parseError = Some(UnbalancedBraces)

\* The completion c is prose, a fenced block that holds the document of the
\* diagram d, and prose.
FencedDiagram(c, d) ==
    /\ c.fam \in {"fenced", "parts"}
    /\ c.fence # NoFence
    /\ c.doc = DiagramDoc(d)

HoldsBrace(s) == \E i \in 1..Len(s) : s[i] \in {"{", "}"}
HoldsFence(s) == \E i \in 1..Len(s) : StartsAt(s, i, Fence)

\* No string of the diagram holds a brace or a fence.
PlainStrings(d) ==
    /\ \A i \in 1..Len(d.nodes) :
         \A s \in {d.nodes[i].id, d.nodes[i].label} : ~HoldsBrace(s) /\ ~HoldsFence(s)
    /\ \A i \in 1..Len(d.edges) :
         \A s \in {d.edges[i].from, d.edges[i].to} : ~HoldsBrace(s) /\ ~HoldsFence(s)

\* C6 (as amended): for prose without "{", then a fenced block, tagged json
\* or not, that holds the JSON of a well-formed diagram whose strings hold
\* neither a brace nor a fence, then prose, the candidate block is the JSON
\* of the diagram and the diagram returned has exactly its nodes and edges,
\* with usedFallback false.
C6_FencedRoundTrip ==
    Returned =>
      \A d \in WellFormedDiagrams :
        (FencedDiagram(TheCompletion, d) /\ NoBrace(TheCompletion.pre) /\ PlainStrings(d))
        => /\ jsonBlock = Stringify(DiagramDoc(d), <<>>)
           /\ diagram = d
           /\ ~diagnostics.usedFallback
           /\ diagnostics.parseError = None
           /\ diagnostics.repairApplied = None
           /\ diagnostics.validationError = None

\* C6 as stated: for any prose, fenced block of a well-formed diagram, and
\* prose, the diagram returned is that diagram and usedFallback is false.
C6_AnyProseAnyStrings ==
    Returned =>
      \A d \in WellFormedDiagrams :
        FencedDiagram(TheCompletion, d)
        => diagram = d /\ ~diagnostics.usedFallback

\* Prose, a fenced chain with nested braces, prose: the chain came back.
C6_Witness ==
    /\ Returned
    /\ TheCompletion.fam = "fenced"
    /\ TheCompletion.fence # NoFence
    /\ TheCompletion.pre # <<>>
    /\ TheCompletion.post # <<>>
    /\ diagram = Chain(MaxChain)
    /\ ~diagnostics.usedFallback

\* One comma, and white space, where a trailing comma goes.
ProperCommas ==
    {tc \in TrailingCommas : Cardinality({i \in 1..Len(tc) : tc[i] = ","}) = 1}

\* The diagrams among the documents written with trailing commas.
CommaDiagrams == {Chain(1), Chain(MaxChain), OneNode(<<"A", ",", "]">>)}

\* The index i of s lies in a comma, white space and closing bracket, before
\* the bracket.
InCommaMatch(s, i) ==
    \E c \in 1..i : \E k \in (i + 1)..Len(s) :
      /\ s[c] = ","
      /\ s[k] \in {"}", "]"}
      /\ \A j \in (c + 1)..(k - 1) : IsSpace(s[j])

\* s without its commas before a closing bracket.
SansCommas(s) ==
    [j \in 1..Len(SelectSeq([i \in 1..Len(s) |-> i], LAMBDA i : ~InCommaMatch(s, i))) |->
       s[SelectSeq([i \in 1..Len(s) |-> i], LAMBDA i : ~InCommaMatch(s, i))[j]]]

\* The diagram d as the text of its document reads once the commas before
\* closing brackets are gone, those inside its strings too.
DiagramSansCommas(d) ==
    [nodes |-> [i \in 1..Len(d.nodes) |->
                  [id |-> SansCommas(d.nodes[i].id), label |-> SansCommas(d.nodes[i].label)]],
     edges |-> [i \in 1..Len(d.edges) |->
                  [from |-> SansCommas(d.edges[i].from), to |-> SansCommas(d.edges[i].to)]]]

\* C7 (as amended): JSON.parse runs at most twice on a candidate block.  A
\* block that is valid JSON but for trailing commas fails the first parse, is
\* repaired (repairApplied is set) and passes the retry with parseError null;
\* the diagram returned is that of the text without its commas before closing
\* brackets, inside strings too, and usedFallback is false when the value has
\* the shape of a diagram.  When the retry fails the result is the empty
\* diagram with usedFallback true and parseError set.
C7_RepairOnce ==
    /\ parses <= 2
    /\ (Returned /\ parses = 2 /\ ~InStages("validate")
        => /\ diagram = EmptyDiagram
           /\ diagnostics.usedFallback
           /\ diagnostics.parseError = Some(ParseFailed))
    /\ (Returned /\ TheCompletion.fam = "comma" /\ TheCompletion.tc \in ProperCommas
        => /\ jsonBlock = Stringify(TheCompletion.doc, TheCompletion.tc)
           /\ parses = 2
           /\ diagnostics.repairApplied = Some(RemovedTrailingCommas)
           /\ diagnostics.parseError = None
           /\ InStages("validate")
           /\ \A d \in CommaDiagrams :
                TheCompletion.doc = DiagramDoc(d)
                => /\ diagram = DiagramSansCommas(d)
                   /\ ~diagnostics.usedFallback
                   /\ diagnostics.validationError = None)

\* C7 as stated: every block that is valid JSON but for trailing commas is
\* repaired and returns the diagram of its JSON with usedFallback false.
C7_RepairAlwaysReturnsDiagram ==
    (Returned /\ TheCompletion.fam = "comma" /\ TheCompletion.tc \in ProperCommas)
    => /\ parses = 2
       /\ diagnostics.repairApplied # None
       /\ ~diagnostics.usedFallback
       /\ \A d \in CommaDiagrams : TheCompletion.doc = DiagramDoc(d) => diagram = d

\* A chain written with a comma and a line feed before every closing bracket
\* came back after the repair.
C7_Witness ==
    /\ Returned
    /\ TheCompletion.fam = "comma"
    /\ TheCompletion.tc = <<",", NL>>
    /\ parses = 2
    /\ diagnostics.repairApplied = Some(RemovedTrailingCommas)
    /\ diagram = Chain(MaxChain)

\* The value under key k of the document object doc: None when absent.
Member(doc, k) ==
    IF \E i \in 1..Len(doc.m) : doc.m[i][1] = k
    THEN Some(doc.m[CHOOSE i \in 1..Len(doc.m) : doc.m[i][1] = k][2])
    ELSE None

\* The text of a string or a number of a document.
TextOf(v) == IF v.t = "str" THEN v.s ELSE NumToString(v.n)

\* Every value the object has under the keys is a string or a number.
Coercible(doc, keys) ==
    \A i \in 1..Len(keys) :
      Member(doc, keys[i]) = None \/ Member(doc, keys[i])[1].t \in {"str", "num"}

\* The text of the first of the keys under which the object has a value
\* that is not empty; else the default.
RECURSIVE FirstNonEmpty(_, _, _)
FirstNonEmpty(doc, keys, default) ==
    IF keys = <<>> THEN default
    ELSE IF Member(doc, Head(keys)) # None /\ TextOf(Member(doc, Head(keys))[1]) # <<>>
         THEN TextOf(Member(doc, Head(keys))[1])
    ELSE FirstNonEmpty(doc, Tail(keys), default)

\* The first node and the first edge of a document.
FirstNode(doc) == Member(doc, KeyNodes)[1].a[1]
FirstEdge(doc) == Member(doc, KeyEdges)[1].a[1]

NodeKeys == <<KeyId, KeyLabel, KeyName, KeyText, KeyTitle>>
EdgeKeys == <<KeyFrom, KeySource, KeyTo, KeyTarget>>

\* What NodeB and EdgeBB are coerced to.
CoercedB == [id |-> <<"b">>, label |-> <<"B">>]
CoercedBB == [from |-> <<"b">>, to |-> <<"b">>]

\* The node n as the claim coerces it.
CoercedNode(n) ==
    [id |-> TextOf(Member(n, KeyId)[1]),
     label |-> FirstNonEmpty(n, <<KeyLabel, KeyName, KeyText, KeyTitle>>,
                             TextOf(Member(n, KeyId)[1]))]

\* The edge e as the claim coerces it.
CoercedEdge(e) ==
    [from |-> FirstNonEmpty(e, <<KeyFrom, KeySource>>, <<>>),
     to |-> FirstNonEmpty(e, <<KeyTo, KeyTarget>>, <<>>)]

\* C8: where lenient coercion accepts a node, its label is the first value
\* that is present and not empty among label, name, text and title, in that
\* order, else its id as a string; an edge's from is the first such value
\* among from and source, its to among to and target; numbers become
\* strings, and keys the schema does not know are dropped.
C8_AliasPriority ==
    /\ (Returned /\ TheCompletion.fam = "node"
          /\ Member(FirstNode(TheCompletion.doc), KeyId) # None
          /\ Coercible(FirstNode(TheCompletion.doc), NodeKeys)
        => /\ diagram.nodes =
                (IF CoercedNode(FirstNode(TheCompletion.doc)).id # <<>>
                 THEN <<CoercedNode(FirstNode(TheCompletion.doc))>> ELSE <<>>)
                \o <<CoercedB>>
           /\ diagram.edges = <<CoercedBB>>
           /\ ~diagnostics.usedFallback)
    /\ (Returned /\ TheCompletion.fam = "edge"
          /\ Coercible(FirstEdge(TheCompletion.doc), EdgeKeys)
        => /\ diagram.edges =
                (IF /\ CoercedEdge(FirstEdge(TheCompletion.doc)).from # <<>>
                    /\ CoercedEdge(FirstEdge(TheCompletion.doc)).to # <<>>
                 THEN <<CoercedEdge(FirstEdge(TheCompletion.doc))>> ELSE <<>>)
                \o <<CoercedBB>>
           /\ diagram.nodes = <<CoercedB>>
           /\ ~diagnostics.usedFallback)

\* A node with the number 7 as id, no label worth the name, and a text: the
\* text became its label, after label and name were passed over.
C8_Witness ==
    /\ Returned
    /\ TheCompletion.fam = "node"
    /\ Member(FirstNode(TheCompletion.doc), KeyLabel) = Some(JStr(<<>>))
    /\ Member(FirstNode(TheCompletion.doc), KeyName) = Some(JStr(<<>>))
    /\ Member(FirstNode(TheCompletion.doc), KeyTitle) = Some(JStr(<<"I">>))
    /\ diagram.nodes = <<[id |-> <<"7">>, label |-> <<"T">>], CoercedB>>

\* C9 as stated: for an object whose nodes and edges are arrays, lenient
\* coercion does not fail; a node without an id or a label, and an edge
\* without a from or a to, is dropped alone, and the other nodes and edges
\* are kept.
C9_DiscardOneByOne ==
    (Returned /\ TheCompletion.fam \in {"node", "edge"})
    => /\ ~diagnostics.usedFallback
       /\ \E i \in 1..Len(diagram.nodes) : diagram.nodes[i] = CoercedB
       /\ \E i \in 1..Len(diagram.edges) : diagram.edges[i] = CoercedBB

\* C10 as stated: a content that is a JSON string holding the JSON text of a
\* diagram is unwrapped and that diagram returned, with usedFallback false;
\* a content that is a JSON string holding no JSON goes on to validation as
\* a string.
C10_UnwrapsStringified ==
    /\ (Returned /\ TheCompletion.fam = "stringified"
        => \A d \in WellFormedDiagrams :
             TheCompletion.doc = DiagramDoc(d)
             => diagram = d /\ ~diagnostics.usedFallback)
    /\ (Returned /\ content = <<DQ, "h", "e", "l", "l", "o", DQ>>
        => InStages("validate") /\ parsedJson = JStr(<<"h", "e", "l", "l", "o">>))

\* The envelope of the response does not have the shape: no array of
\* choices, no choice, or a message whose content is neither a string nor
\* parts.
EnvelopeMismatch(r) ==
    /\ r.status = 200
    /\ r.body # None
    /\ \/ r.body[1].choices = None
       \/ r.body[1].choices[1] = <<>>
       \/ \E i \in 1..Len(r.body[1].choices[1]) :
            r.body[1].choices[1][i].kind \notin {"string", "parts"}

\* C11: when the envelope of the provider's response does not have the shape,
\* generateDiagramWithNim throws "Unexpected response shape" and returns no
\* diagram; no later stage runs, and POST /api/generate answers 502 with the
\* message of the error.
C11_EnvelopeIsFatal ==
    /\ (EnvelopeMismatch(response) => pc # "returned")
    /\ (EnvelopeMismatch(response) /\ InStages("envelope")
        => /\ pc = "threw"
           /\ error = Some(EnvelopeError)
           /\ stages = <<"envelope">>
           /\ ~diagnostics.usedFallback
           /\ rpc \in {"generate", "finally", "done"})
    /\ (EnvelopeMismatch(response) /\ InStages("envelope") /\ rpc \in {"finally", "done"}
        => reply = Json(502, ErrorBody(EnvelopeError)))

\* A response without a choice was answered with 502.
C11_Witness ==
    /\ rpc = "done"
    /\ response.body = Some(Envelope(<<>>))
    /\ pc = "threw"
    /\ reply = Json(502, ErrorBody(EnvelopeError))

\* C12: when the content is empty after trimming, generateDiagramWithNim
\* returns the empty diagram with usedFallback true and throws nothing; the
\* extraction, the parse, the repair and the validation do not run, and
\* extractedJson, parseError, repairApplied and validationError stay null.
C12_EmptyContent ==
    (InStages("content") /\ Trim(content) = <<>>)
    => /\ pc = "returned"
       /\ error = None
       /\ diagram = EmptyDiagram
       /\ diagnostics.usedFallback
       /\ diagnostics.extractedJson = None
       /\ diagnostics.parseError = None
       /\ diagnostics.repairApplied = None
       /\ diagnostics.validationError = None
       /\ stages = <<"envelope", "content">>
       /\ parses = 0
       /\ jsonBlock = <<>>

\* A content of white space alone came back as the empty diagram.
C12_Witness ==
    /\ Returned
    /\ response = OkString(RawCompletion(<<NL, " ", NL>>))
    /\ diagnostics.usedFallback
    /\ stages = <<"envelope", "content">>

\* C13: the timer fires only while the call awaits the provider, and it
\* aborts the request; an aborted call returns no diagram: the one step it
\* can take, and does take, is to throw the abort.  Every step that ends the
\* call clears the timer, so that when the call is over the timer is cleared
\* (or was never set, without the key).
C13_TimeoutAborts ==
    /\ [](aborted => pc # "returned")
    /\ [](timer = "fired" => aborted /\ Awaiting)
    /\ [](aborted /\ pc # "threw" => ENABLED AbortRejects)
    /\ [][aborted => pc' = "threw" /\ error' = Some(AbortError)]_vars
    /\ [][pc' \in {"returned", "threw"} /\ pc # "init" => timer' = "cleared"]_vars
    /\ [](pc \in {"returned", "threw"}
          => timer = (IF requests = 0 THEN "unset" ELSE "cleared"))

\* The timer fired while the body was read; the call threw the abort and the
\* timer is cleared.
C13_Witness ==
    /\ pc = "threw"
    /\ aborted
    /\ error = Some(AbortError)
    /\ response.status = 200
    /\ timer = "cleared"

TheNodes == layoutInput.nodes
RectangleOf(i) == elements[2 * i - 1]

\* No two nodes have the same id.
DistinctIds(nodes) ==
    \A i, j \in 1..Len(nodes) : nodes[i].id = nodes[j].id => i = j

\* max(1, ceil(sqrt(n))), by its definition.
GridColumns(n) ==
    CHOOSE c \in 1..(n + 1) : c * c >= n /\ (c = 1 \/ (c - 1) * (c - 1) < n)

\* The column and the row of the grid at which an element stands.
GridColumn(e) == (e.x[1] - 80) \div 280
GridRow(e) == (e.y[1] - 80) \div 220

\* Every node has its rectangle, in node order, at the row and the column
\* of its index.
PlacedByIndex ==
    /\ Len(elements) >= 2 * Len(TheNodes)
    /\ \A i \in 1..Len(TheNodes) :
         /\ RectangleOf(i).type = "rectangle"
         /\ RectangleOf(i).customData = <<TheNodes[i].id>>
         /\ (RectangleOf(i).x[1] - 80) % 280 = 0
         /\ (RectangleOf(i).y[1] - 80) % 220 = 0
         /\ GridColumn(RectangleOf(i)) = (i - 1) % GridColumns(Len(TheNodes))
         /\ GridRow(RectangleOf(i)) = (i - 1) \div GridColumns(Len(TheNodes))

\* The cases the claim names: no node, no rectangle; one node, one column;
\* four nodes, two columns; five nodes, three columns.
NamedGrids ==
    /\ Len(TheNodes) = 0
       => \A k \in 1..Len(elements) : elements[k].type = "arrow"
    /\ Len(TheNodes) = 1
       => GridColumn(RectangleOf(1)) = 0 /\ GridRow(RectangleOf(1)) = 0
    /\ Len(TheNodes) = 4
       => /\ GridColumn(RectangleOf(2)) = 1 /\ GridRow(RectangleOf(2)) = 0
          /\ GridColumn(RectangleOf(3)) = 0 /\ GridRow(RectangleOf(3)) = 1
    /\ Len(TheNodes) = 5
       => /\ GridColumn(RectangleOf(3)) = 2 /\ GridRow(RectangleOf(3)) = 0
          /\ GridColumn(RectangleOf(4)) = 0 /\ GridRow(RectangleOf(4)) = 1

\* C15 (as amended): for a diagram of N nodes whose ids are distinct,
\* buildExcalidrawElements uses max(1, ceil(sqrt(N))) columns and puts the
\* rectangle of the node at index i at row floor(i / columns) and column
\* i mod columns; no node gives no rectangle, one node one column, four nodes
\* two columns, five nodes three columns.
C15_GridOfDistinctIds ==
    (builds > 0 /\ DistinctIds(TheNodes)) => PlacedByIndex /\ NamedGrids

\* C15 as stated: the same of every diagram, and an empty output for a
\* diagram without nodes.
C15_GridOfEveryDiagram ==
    builds > 0
    => /\ PlacedByIndex
       /\ NamedGrids
       /\ (Len(TheNodes) = 0 => elements = <<>>)

\* Five nodes with ids of their own: the fourth opens the second row.
C15_Witness ==
    /\ builds > 0
    /\ Len(TheNodes) = 5
    /\ DistinctIds(TheNodes)
    /\ RectangleOf(4).x = Num(80)
    /\ RectangleOf(4).y = Num(300)
    /\ RectangleOf(3).x = Num(640)

\* The index (from 0) of the node whose cell the rectangle of the i-th node
\* takes: the last node with the same id.
CellIndex(i) ==
    (CHOOSE j \in 1..Len(TheNodes) :
       /\ TheNodes[j].id = TheNodes[i].id
       /\ \A k \in (j + 1)..Len(TheNodes) : TheNodes[k].id # TheNodes[i].id) - 1

\* Every rectangle stands at the start offset plus its column and row times
\* the steps, and has the size of a cell.
CellsAt(stepX, stepY) ==
    \A i \in 1..Len(TheNodes) :
      /\ RectangleOf(i).x = Num(80 + (CellIndex(i) % GridColumns(Len(TheNodes))) * stepX)
      /\ RectangleOf(i).y = Num(80 + (CellIndex(i) \div GridColumns(Len(TheNodes))) * stepY)
      /\ RectangleOf(i).width = Num(220)
      /\ RectangleOf(i).height = Num(120)

\* C16 (as amended): the position of a cell is the start offset plus its
\* column times gapX, for x, and its row times gapY, for y: x = 80 + column
\* * 280 and y = 80 + row * 220, for cells of 220 by 120; the gaps are the
\* steps from cell to cell, and the cell dimension is not added to them.
C16_CellPosition ==
    builds > 0 => CellsAt(280, 220)

\* C16 as stated: x = 80 + column * (220 + 280), y = 80 + row * (120 + 220).
C16_CellPlusGap ==
    builds > 0 => CellsAt(220 + 280, 120 + 220)

\* The second of two nodes stands 280 to the right of the first.
C16_Witness ==
    /\ builds > 0
    /\ Len(TheNodes) = 2
    /\ DistinctIds(TheNodes)
    /\ RectangleOf(1).x = Num(80)
    /\ RectangleOf(2).x = Num(360)
    /\ RectangleOf(2).y = Num(80)

\* The id is that of a node of the diagram.
IsNodeId(id) == \E i \in 1..Len(TheNodes) : TheNodes[i].id = id

\* The edges whose ends are both nodes, in order.
SoundEdges ==
    SelectSeq(layoutInput.edges, LAMBDA e : IsNodeId(e.from) /\ IsNodeId(e.to))

TheArrows == SelectSeq(elements, LAMBDA e : e.type = "arrow")

\* C17 as stated: buildExcalidrawElements makes one arrow for each edge
\* whose ends are both ids of nodes, and none for an edge with an end that
\* is no id of a node, whatever that end is.
C17_DanglingSkipped ==
    builds > 0
    => /\ Len(TheArrows) = Len(SoundEdges)
       /\ \A k \in 1..Len(TheArrows) :
            TheArrows[k].customData = <<SoundEdges[k].from, SoundEdges[k].to>>

\* What of an element the call does not draw at random.
Geometry(e) == <<e.type, e.x, e.y, e.width, e.height, e.points>>

TheContent == response.body[1].choices[1][1]

\* The texts of the parts whose type is text, in order.
TextsOf(parts) ==
    [i \in 1..Len(SelectSeq(parts, LAMBDA q : q.type = "text")) |->
       IF SelectSeq(parts, LAMBDA q : q.type = "text")[i].text = None THEN <<>>
       ELSE SelectSeq(parts, LAMBDA q : q.type = "text")[i].text[1]]

\* The text that every part stands for: its text, or the empty string when
\* it is no text part or has no text.
SlotsOf(parts) ==
    [i \in 1..Len(parts) |->
       IF parts[i].type = "text" /\ parts[i].text # None THEN parts[i].text[1]
       ELSE <<>>]

\* C19 (as amended): for parts, every part stands for a string, its text when
\* its type is text and the empty string otherwise, the strings are joined
\* with one newline between consecutive parts, so that a part that is no text
\* still adds a separator, and the result is trimmed; a content that is a
\* single string is taken as it is, untrimmed.  diagnostics.rawContent holds
\* this text.
C19_ContentOfParts ==
    InStages("content")
    => /\ diagnostics.rawContent =
            (IF TheContent.kind = "string" THEN TheContent.s
             ELSE Trim(JoinNL(SlotsOf(TheContent.parts))))
       /\ content = diagnostics.rawContent

\* C19 as stated: only the text parts contribute, with exactly one newline
\* between consecutive text parts, and the result is trimmed; a single string
\* is trimmed.
C19_TextPartsTrimmed ==
    InStages("content")
    => diagnostics.rawContent =
         (IF TheContent.kind = "string" THEN Trim(TheContent.s)
          ELSE Trim(JoinNL(TextsOf(TheContent.parts))))

\* Parts with prose, a part that is no text, and the document: the content
\* holds two newlines in a row, and the diagram came back.
C19_Witness ==
    /\ Returned
    /\ TheCompletion.fam = "parts"
    /\ TheCompletion.pre # <<>>
    /\ \E i \in 1..(Len(diagnostics.rawContent) - 1) :
         diagnostics.rawContent[i] = NL /\ diagnostics.rawContent[i + 1] = NL
    /\ diagram = Chain(1)

\* The request has a session.
Authenticated == request.user # None

\* The body of the request as the schema reads it.
TheBody == generateRequestSchema(request.body)

\* What the one row logged holds, by the status answered.
RowLogged(row, answer) ==
    /\ row.user_id = request.user[1].id
    /\ row.duration_ms = "Date.now() - startedAt"
    /\ answer.status \in {200, 400, 403, 502}
    /\ answer.status = 200
       => /\ pc = "returned"
          /\ row.prompt = TheBody.prompt
          /\ row.model_used = modelUsed
          /\ row.response_json =
               Some([diagram |-> answer.body.diagram, elements |-> answer.body.elements])
    /\ answer.status = 502
       => /\ row.response_json = Some(answer.body)
          /\ IF pc = "threw"
             THEN /\ row.prompt = TheBody.prompt
                  /\ row.model_used = TheBody.model
                  /\ answer.body = ErrorBody(error[1])
             ELSE /\ row.prompt = <<>>
                  /\ row.model_used = ROUTE_DEFAULT_MODEL
    /\ answer.status \in {400, 403}
       => /\ pc = "idle"
          /\ row.prompt = <<>>
          /\ row.model_used = ROUTE_DEFAULT_MODEL
          /\ row.response_json = None

\* C20: for every request of an authenticated user, whatever is answered
\* (200, 200 with the warning, 400, 403, 502), exactly one insert into
\* ai_logs is attempted, as the last step of the handler, with the user id,
\* the prompt, the model, the response and the duration as the handler holds
\* them then; whether the insert fails or not, the answer stays as it was.
C20_EveryRunLogged ==
    /\ [](Len(aiLogs) <= 1)
    /\ [](rpc # "done" => aiLogs = <<>>)
    /\ [](rpc = "done" /\ ~Authenticated => aiLogs = <<>>)
    /\ [](rpc = "done" /\ Authenticated
          => /\ reply # None
             /\ Len(aiLogs) = 1
             /\ RowLogged(aiLogs[1], reply[1]))
    /\ [][rpc = "finally" => rpc' = "done" /\ reply' = reply]_vars

\* A run that fell back was answered with 200 and the warning, and the
\* insert of its row failed.
C20_Witness ==
    /\ rpc = "done"
    /\ reply # None
    /\ reply[1].status = 200
    /\ reply[1].body.warning
    /\ Len(aiLogs) = 1
    /\ aiLogs[1].outcome = "error"

\* The handler has answered a request for which generateDiagramWithNim ran
\* up to the content of the completion.
AnsweredContent == rpc \in {"finally", "done"} /\ InStages("content")

\* The content was no JSON, even after the repair.
Unparseable == diagnostics.parseError # None

\* The parsed value does not satisfy the strict schema.
NotStrict == InStages("validate") /\ ~diagramSchema(parsedJson).success

\* Both schemas refuse the parsed value.
RefusedByBoth ==
    /\ InStages("validate")
    /\ ~lenientDiagramSchema(parsedJson).success
    /\ ~diagramSchema(parsedJson).success

LenientFailed == InStages("validate") /\ ~lenientDiagramSchema(parsedJson).success

\* {"nodes":[{"id":"a","label":"A","title":true}],"edges":[{"from":"b","to":"b"}]}
TitleTrue ==
    /\ TheCompletion.fam = "shape"
    /\ TheCompletion.doc =
         JObj(<< <<KeyNodes, JArr(<<JObj(<< <<KeyId, JStr(<<"a">>)>>,
                                            <<KeyLabel, JStr(<<"A">>)>>,
                                            <<KeyTitle, JBool(TRUE)>> >>)>>)>>,
                 <<KeyEdges, JArr(<<EdgeBB>>)>> >>)

\* C22: when the lenient schema refuses the parsed value and the strict
\* schema accepts it, the output of the strict schema on the parsed value is
\* the diagram returned, with usedFallback false and no validation error;
\* the empty fallback whose validationError holds the issues of the lenient
\* schema is returned when both schemas refuse the value, and only then.
C22_StrictDirect ==
    Returned /\ InStages("validate") =>
      /\ (LenientFailed /\ diagramSchema(parsedJson).success
          => /\ diagram = diagramSchema(parsedJson).data
             /\ ~diagnostics.usedFallback
             /\ diagnostics.validationError = None)
      /\ (RefusedByBoth
          <=> diagnostics.usedFallback /\ diagnostics.validationError # None)
      /\ (RefusedByBoth
          => /\ diagram = EmptyDiagram
             /\ diagnostics.validationError =
                  Some(<<"lenient", lenientDiagramSchema(parsedJson).issues>>))
      /\ (LenientFailed /\ TitleTrue
          => diagram = [nodes |-> <<[id |-> <<"a">>, label |-> <<"A">>]>>,
                        edges |-> <<[from |-> <<"b">>, to |-> <<"b">>]>>])

\* A node whose title is true, which the lenient schema refuses, was
\* returned by the strict schema.
C22_Witness ==
    /\ Returned
    /\ LenientFailed
    /\ TitleTrue
    /\ diagramSchema(parsedJson).success
    /\ diagram # EmptyDiagram
    /\ ~diagnostics.usedFallback

\* The last stage that ran.
LastStage == stages[Len(stages)]

\* What the diagnostics of a fallback record, by the stage that failed.
ReasonRecorded ==
    \/ /\ LastStage = "content"
       /\ Trim(diagnostics.rawContent) = <<>>
       /\ diagnostics.parseError = None
       /\ diagnostics.validationError = None
    \/ /\ LastStage = "extract"
       /\ diagnostics.parseError \in {Some(NoJsonObject), Some(UnbalancedBraces)}
       /\ diagnostics.validationError = None
    \/ /\ LastStage = "parse"
       /\ diagnostics.parseError = Some(ParseFailed)
       /\ diagnostics.validationError = None
    \/ /\ LastStage = "validate"
       /\ diagnostics.parseError = None
       /\ diagnostics.validationError # None
       /\ diagnostics.validationError[1][1] = "lenient"

\* C23 (as amended): in every result with usedFallback true, either the
\* content was empty after trimming, and then parseError and validationError
\* are both null, or exactly one of the two is set and tells the stage that
\* failed: parseError for the extraction and for the parse, validationError
\* for the schemas.  extractedJson is set exactly when the extraction of the
\* JSON block succeeded, and holds the block.
C23_FallbackReason ==
    Returned =>
      /\ (diagnostics.usedFallback => ReasonRecorded)
      /\ (diagnostics.extractedJson # None
          <=> InStages("extract") /\ extractJsonFromText(content).ok)
      /\ (diagnostics.extractedJson # None
          => diagnostics.extractedJson = Some(extractJsonFromText(content).block))

\* C23 as stated: every fallback has parseError or validationError set.
C23_EveryFallbackHasError ==
    Returned /\ diagnostics.usedFallback
    => diagnostics.parseError # None \/ diagnostics.validationError # None

\* A content without a brace fell back with the reason in parseError and
\* without an extracted block.
C23_Witness ==
    /\ Returned
    /\ diagnostics.usedFallback
    /\ diagnostics.parseError = Some(NoJsonObject)
    /\ diagnostics.extractedJson = None
    /\ Trim(content) # <<>>

\* The nodes and edges of a value that satisfies the strict schema, each
\* reduced to id and label, from and to.
ProjectedNodes(v) ==
    [i \in 1..Len(v.o[KeyNodes].a) |->
       [id |-> v.o[KeyNodes].a[i].o[KeyId].s, label |-> v.o[KeyNodes].a[i].o[KeyLabel].s]]
ProjectedEdges(v) ==
    [i \in 1..Len(v.o[KeyEdges].a) |->
       [from |-> v.o[KeyEdges].a[i].o[KeyFrom].s, to |-> v.o[KeyEdges].a[i].o[KeyTo].s]]

\* The parsed value satisfies the strict schema.
AlreadyValid == InStages("validate") /\ diagramSchema(parsedJson).success

\* C24: for every parsed value that satisfies the strict schema, whether
\* the lenient schema accepts it or not, the diagram returned holds the
\* nodes of the value reduced to id and label and its edges reduced to from
\* and to, in their order, with usedFallback false and validationError null.
C24_IdentityOnValid ==
    Returned /\ AlreadyValid =>
      /\ diagram.nodes = ProjectedNodes(parsedJson)
      /\ diagram.edges = ProjectedEdges(parsedJson)
      /\ ~diagnostics.usedFallback
      /\ diagnostics.validationError = None

\* A valid value whose edge also names a source came back with its from,
\* through the lenient schema.
C24_Witness ==
    /\ Returned
    /\ AlreadyValid
    /\ lenientDiagramSchema(parsedJson).success
    /\ TheCompletion.fam = "edge"
    /\ KeySource \in DOMAIN parsedJson.o[KeyEdges].a[1].o
    /\ diagram.edges = <<[from |-> <<"b">>, to |-> <<"b">>], [from |-> <<"b">>, to |-> <<"b">>]>>

\* The output of the lenient schema on the parsed value, and what the strict
\* schema says of it.
Coerced == lenientDiagramSchema(parsedJson).data
StrictOfCoerced == diagramSchema(DiagramValue(Coerced))

\* The strict schema refuses the output of the lenient schema.
BestEffort ==
    /\ InStages("validate")
    /\ lenientDiagramSchema(parsedJson).success
    /\ ~StrictOfCoerced.success

\* The issue is a label over the limit, or one of the two caps.
LabelOrCap(issue, d) ==
    \/ /\ Len(issue.path) = 3
       /\ issue.path[1] = KeyNodes
       /\ issue.path[3] = KeyLabel
       /\ Len(d.nodes[issue.path[2] + 1].label) > MAX_LABEL
    \/ issue.path = <<KeyNodes>> /\ Len(d.nodes) > MAX_NODES
    \/ issue.path = <<KeyEdges>> /\ Len(d.edges) > MAX_EDGES

\* C25: every diagram returned, the best-effort one included, has non-empty
\* ids, labels, from and to; when the strict schema refuses the output of the
\* lenient schema, each of its issues is a label of more than 200 characters
\* or more than 200 nodes or 400 edges.
C25_LenientNearlyStrict ==
    Returned =>
      /\ NonEmptyFields(diagram)
      /\ (BestEffort
          => /\ diagram = Coerced
             /\ \A i \in 1..Len(StrictOfCoerced.issues) :
                  LabelOrCap(StrictOfCoerced.issues[i], Coerced))

\* A node whose id is a number and whose name has 201 characters was
\* returned next to node b, with the one issue of its label.
C25_Witness ==
    /\ Returned
    /\ BestEffort
    /\ Len(diagram.nodes) = 2
    /\ diagram.nodes[1].id = <<"1", "2">>
    /\ Len(diagram.nodes[1].label) = MAX_LABEL + 1
    /\ StrictOfCoerced.issues = <<[path |-> <<KeyNodes, 0, KeyLabel>>]>>

\* buildExcalidrawElements was called on the diagram that
\* generateDiagramWithNim returned.
BuiltFromDiagram == rpc \in {"finally", "done"} /\ pc = "returned"

\* Several nodes of the diagram have the same id.
SharedIds == ~DistinctIds(TheNodes)

\* The index (from 0) of the last node with the id, and the centre of its
\* cell.
LastCell(id) ==
    (CHOOSE j \in 1..Len(TheNodes) :
       /\ TheNodes[j].id = id
       /\ \A k \in (j + 1)..Len(TheNodes) : TheNodes[k].id # id) - 1
CentreX(id) == 80 + (LastCell(id) % GridColumns(Len(TheNodes))) * 280 + 110
CentreY(id) == 80 + (LastCell(id) \div GridColumns(Len(TheNodes))) * 220 + 60

\* Every node has its rectangle and its label, in node order.
RectangleAndLabelEach ==
    /\ Len(elements) >= 2 * Len(TheNodes)
    /\ \A i \in 1..Len(TheNodes) :
         /\ elements[2 * i - 1].type = "rectangle"
         /\ elements[2 * i - 1].customData = <<TheNodes[i].id>>
         /\ elements[2 * i].type = "text"
         /\ elements[2 * i].customData = <<TheNodes[i].label>>
    /\ \A k \in (2 * Len(TheNodes) + 1)..Len(elements) : elements[k].type = "arrow"

\* Every arrow between ids of nodes starts at the centre of the cell of the
\* last node with its from and ends at that of the last node with its to.
ArrowsAtLastCell ==
    \A k \in 1..Len(elements) :
      (/\ elements[k].type = "arrow"
       /\ IsNodeId(elements[k].customData[1])
       /\ IsNodeId(elements[k].customData[2]))
      => /\ elements[k].x = Num(CentreX(elements[k].customData[1]))
         /\ elements[k].y = Num(CentreY(elements[k].customData[1]))
         /\ elements[k].points[2] =
              <<Num(CentreX(elements[k].customData[2]) - CentreX(elements[k].customData[1])),
                Num(CentreY(elements[k].customData[2]) - CentreY(elements[k].customData[1]))>>

\* C26: node ids are not de-duplicated.  A parsed value that satisfies the
\* strict schema keeps all of its nodes in the diagram returned, whether
\* their ids differ or not; buildExcalidrawElements makes a rectangle and a
\* label for each node, puts every node at the cell of the last node with
\* its id, and attaches every arrow to or from an id to that cell.
C26_LastWriteWins ==
    /\ (Returned /\ AlreadyValid
        => Len(diagram.nodes) = Len(parsedJson.o[KeyNodes].a))
    /\ (Returned /\ TheCompletion.fam = "shape" /\ TheCompletion.doc = DiagramDoc(SameIds)
        => diagram = SameIds)
    /\ (BuiltFromDiagram
        => /\ TheNodes = diagram.nodes
           /\ RectangleAndLabelEach
           /\ CellsAt(280, 220)
           /\ ArrowsAtLastCell)

\* The first and the third node have the id b: both rectangles stand at the
\* cell of the third, and the arrow from a ends at its centre.
C26_Witness ==
    /\ BuiltFromDiagram
    /\ SharedIds
    /\ Len(elements) = 7
    /\ elements[1].x = Num(80) /\ elements[1].y = Num(300)
    /\ elements[5].x = Num(80) /\ elements[5].y = Num(300)
    /\ elements[7].type = "arrow"
    /\ elements[7].x = Num(470) /\ elements[7].y = Num(140)
    /\ elements[7].points[2] = <<Num(-280), Num(220)>>

\* |n|
Magnitude(n) == IF n < 0 THEN 0 - n ELSE n

\* The way from the centre of the cell of one id to that of another.
WayX(from, to) == CentreX(to) - CentreX(from)
WayY(from, to) == CentreY(to) - CentreY(from)

\* The arrows both of whose ends are ids of nodes.
SoundArrows ==
    SelectSeq(elements, LAMBDA e : /\ e.type = "arrow"
                                   /\ IsNodeId(e.customData[1])
                                   /\ IsNodeId(e.customData[2]))

\* The arrow of the edge starts at the centre of the cell of its from, and
\* its second point is the way to the centre of the cell of its to.
ArrowOf(a, edge) ==
    /\ a.customData = <<edge.from, edge.to>>
    /\ a.x = Num(CentreX(edge.from))
    /\ a.y = Num(CentreY(edge.from))
    /\ a.points = << <<Num(0), Num(0)>>,
                     <<Num(WayX(edge.from, edge.to)), Num(WayY(edge.from, edge.to))>> >>
    /\ a.width = Num(Magnitude(WayX(edge.from, edge.to)))
    /\ a.height = Num(Magnitude(WayY(edge.from, edge.to)))
    /\ a.startArrowhead = "null"
    /\ a.endArrowhead = "arrow"
    /\ (edge.from = edge.to
        => a.points[2] = <<Num(0), Num(0)>> /\ a.width = Num(0) /\ a.height = Num(0))

\* C27: every edge whose ends are both ids of nodes has one arrow, in edge
\* order, with x and y the centre of the cell of its from, points [0, 0] and
\* [dx, dy], the centre of the cell of its to minus that of its from, width
\* |dx| and height |dy|, no arrowhead at its start and an arrow at its end;
\* an edge from a node to itself has its arrow too, with dx = dy = 0.
C27_ArrowGeometry ==
    builds > 0
    => /\ Len(SoundArrows) = Len(SoundEdges)
       /\ \A k \in 1..Len(SoundArrows) : ArrowOf(SoundArrows[k], SoundEdges[k])

\* An arrow up and to the left, from the fifth node to the first, and an
\* arrow from a node to itself.
C27_Witness ==
    /\ builds > 0
    /\ Len(SoundArrows) = 2
    /\ SoundArrows[1].x = Num(470)
    /\ SoundArrows[1].y = Num(360)
    /\ SoundArrows[1].points[2] = <<Num(-280), Num(-220)>>
    /\ SoundArrows[1].width = Num(280)
    /\ SoundArrows[2].customData = <<Ids[2], Ids[2]>>
    /\ SoundArrows[2].width = Num(0)

\* C28 as stated: for a diagram of N nodes of whose edges R have both ends
\* among the ids of the nodes, buildExcalidrawElements returns 2N + R
\* elements: the rectangle and then the label of each node, in node order,
\* then the arrows of those R edges, in edge order; none for the empty
\* diagram.
C28_TwoNPlusR ==
    builds > 0
    => /\ Len(elements) = 2 * Len(TheNodes) + Len(SoundEdges)
       /\ RectangleAndLabelEach
       /\ \A k \in 1..Len(SoundEdges) :
            elements[2 * Len(TheNodes) + k].customData
              = <<SoundEdges[k].from, SoundEdges[k].to>>
       /\ (layoutInput = EmptyDiagram => elements = <<>>)

\* generateDiagramWithNim has been invoked.
Invoked == pc # "idle"

\* The prompt of the body has 1 to 4000 characters after trimming.
PromptInRange ==
    /\ request.body # None
    /\ request.body[1].prompt # None
    /\ Len(Trim(request.body[1].prompt[1])) \in 1..MAX_PROMPT

\* C29: POST /api/generate invokes generateDiagramWithNim only after the
\* session user was found (401 otherwise), then isAdminEmail allowed the
\* user (403 otherwise), then the body passed the schema with a prompt of 1
\* to 4000 characters after trimming (400 otherwise), in this order; a
\* request answered with 401, 403 or 400 never invokes it and sends nothing
\* to the provider.
C29_GuardsBeforeProvider ==
    /\ [](Invoked => /\ Authenticated
                     /\ userId = Some(request.user[1].id)
                     /\ TheBody.success
                     /\ PromptInRange
                     /\ prompt = Trim(request.body[1].prompt[1])
                     /\ rpc \in {"generate", "finally", "done"})
    /\ [](requests > 0 => Invoked)
    /\ [](reply # None /\ reply[1].status \in {400, 401, 403}
          => ~Invoked /\ requests = 0 /\ "error" \in DOMAIN reply[1].body)
    /\ [](reply # None /\ ~Authenticated => reply = Json(401, ErrorBody("Unauthorized")))
    /\ [](reply # None /\ Authenticated /\ ~TheBody.success
          => reply[1].status \in {400, 403, 502})
    /\ [](reply # None /\ reply[1].status = 400
          => ~TheBody.success /\ reply[1].body = ErrorBody(TheBody.message))
    /\ [][rpc' = "isAdmin" /\ rpc # "isAdmin" => rpc = "getUser" /\ Authenticated]_vars
    /\ [][rpc' = "body" /\ rpc # "body" => rpc = "isAdmin"]_vars
    /\ [][Invoked' /\ ~Invoked => rpc = "body" /\ rpc' = "generate" /\ TheBody.success]_vars

\* A prompt of 4001 characters was answered with 400, and nothing was sent
\* to the provider.
C29_Witness ==
    /\ rpc = "done"
    /\ reply = Json(400, ErrorBody("Prompt is too long"))
    /\ ~Invoked
    /\ requests = 0
    /\ Authenticated

\* The ids of the rows of the list.
InList == {scenes[k] : k \in 1..Len(scenes)}

\* C30 as stated: whatever the interleaving of handleSaveNew,
\* handleUpdateSelected, handleDelete and handleLoad, selectedSceneId is null
\* or the id of a row of the scenes list.
C30_SelectionInList ==
    selectedSceneId = None \/ selectedSceneId[1] \in InList

=============================================================================
